---- MODULE Spec2Model ----
(***************************************************************************)
(* Model of the IFS customization translator: the .lng/.trs block encoder  *)
(* (lng_generator.py, trs_generator.py), the custom-field filter           *)
(* (parser.py), the file validator (validator.py) and the orchestrator     *)
(* (main.py).                                                              *)
(*                                                                         *)
(* Text is modelled character by character: a Python str is a TLA+ string, *)
(* sliced with SubSeq and joined with \o, so that writing a file, reading  *)
(* it back, trimming, splitting and matching are computed, not assumed.    *)
(***************************************************************************)
EXTENDS Integers, Sequences, FiniteSets, TLC

(***************************************************************************)
(* Bounds of the model.                                                    *)
(***************************************************************************)
\* Largest number of nodes (logical units + views + columns) of an input tree.
MaxNodes == 5
\* Largest number of content lines of a hand-written input file.
MaxLines == 3

(***************************************************************************)
(* Python str operations.                                                  *)
(***************************************************************************)
CharAt(s, i) == SubSeq(s, i, i)

SetMin(S) == CHOOSE m \in S : \A n \in S : m <= n
SetMax(S) == CHOOSE m \in S : \A n \in S : m >= n

\* The whitespace str.strip() removes (the ASCII part of it).
IsSpace(c) == c \in {" ", "\t", "\n", "\r", "\f"}

\* str.strip()
Strip(s) ==
  LET keep == {i \in 1..Len(s) : ~IsSpace(CharAt(s, i))}
  IN  IF keep = {} THEN "" ELSE SubSeq(s, SetMin(keep), SetMax(keep))

\* str.startswith / str.endswith
StartsWith(s, p) == Len(s) >= Len(p) /\ SubSeq(s, 1, Len(p)) = p
EndsWith(s, p) == Len(s) >= Len(p) /\ SubSeq(s, Len(s) - Len(p) + 1, Len(s)) = p

\* p in s
Contains(s, p) ==
  \E i \in 1..(Len(s) - Len(p) + 1) : SubSeq(s, i, i + Len(p) - 1) = p

\* len(s.split('^'))
SplitCount(s) == Cardinality({i \in 1..Len(s) : CharAt(s, i) = "^"}) + 1

\* ''.join(lines)
RECURSIVE Join(_)
Join(lines) == IF lines = <<>> THEN "" ELSE Head(lines) \o Join(Tail(lines))

\* '\t' * n
RECURSIVE Tabs(_)
Tabs(n) == IF n <= 0 THEN "" ELSE "\t" \o Tabs(n - 1)

Lower == "abcdefghijklmnopqrstuvwxyz"
Upper == "ABCDEFGHIJKLMNOPQRSTUVWXYZ"

ToUpper(c) ==
  IF \E i \in 1..Len(Lower) : CharAt(Lower, i) = c
  THEN CharAt(Upper, CHOOSE i \in 1..Len(Lower) : CharAt(Lower, i) = c)
  ELSE c
ToLower(c) ==
  IF \E i \in 1..Len(Upper) : CharAt(Upper, i) = c
  THEN CharAt(Lower, CHOOSE i \in 1..Len(Upper) : CharAt(Upper, i) = c)
  ELSE c

RECURSIVE LowerAll(_)
LowerAll(s) == IF s = "" THEN "" ELSE ToLower(Head(s)) \o LowerAll(Tail(s))

\* Variant of Capitalize: the first character upper-cased, the rest as it is.
Capitalize_first(s) == IF s = "" THEN "" ELSE ToUpper(Head(s)) \o Tail(s)

\* str.capitalize(): first character upper-cased, the rest lower-cased.
Capitalize(s) == IF s = "" THEN "" ELSE ToUpper(Head(s)) \o LowerAll(Tail(s))

\* s.split('-')[0]
BeforeHyphen(s) ==
  LET at == {i \in 1..Len(s) : CharAt(s, i) = "-"}
  IN  IF at = {} THEN s ELSE SubSeq(s, 1, SetMin(at) - 1)

\* Path(p).suffix: from the last dot of the name, none for a leading dot.
Suffix(p) ==
  LET at == {i \in 2..Len(p) : CharAt(p, i) = "."}
  IN  IF at = {} THEN "" ELSE SubSeq(p, SetMax(at), Len(p))

(***************************************************************************)
(* open(path, 'r').readlines(): universal newlines turn "\r\n" and a lone  *)
(* "\r" into "\n"; every line keeps its "\n"; a last line without one is   *)
(* kept when it is not empty.                                              *)
(***************************************************************************)
\* The positions where a line ends: a "\n", or a "\r" that no "\n" follows.
LineEnds(t) ==
  {e \in 1..Len(t) :
     \/ CharAt(t, e) = "\n"
     \/ CharAt(t, e) = "\r" /\ ~(e < Len(t) /\ CharAt(t, e + 1) = "\n")}

\* The k-th smallest element of a set of numbers.
Nth(S, k) == CHOOSE e \in S : Cardinality({x \in S : x <= e}) = k

\* The line that ends at position e and starts at position b, as read.
ReadLine(t, b, e) ==
  LET last == IF CharAt(t, e) = "\n" /\ e > b /\ CharAt(t, e - 1) = "\r"
              THEN e - 2 ELSE e - 1
  IN  SubSeq(t, b, last) \o "\n"

ReadLines(text) ==
  LET ends == LineEnds(text)
      n == Cardinality(ends)
      Start(k) == IF k = 1 THEN 1 ELSE Nth(ends, k - 1) + 1
      whole == [k \in 1..n |-> ReadLine(text, Start(k), Nth(ends, k))]
      rest == IF n = 0 THEN text ELSE SubSeq(text, Nth(ends, n) + 1, Len(text))
  IN  IF rest = "" THEN whole ELSE Append(whole, rest)

(***************************************************************************)
(* Resource tree: data['logical_units'] is an insertion-ordered dict,      *)
(* modelled as the sequence of its values in insertion order; every value  *)
(* carries its own key (lu id, view control, column control), and keys are *)
(* pairwise different within one dict.                                     *)
(***************************************************************************)
Digit(i) == CharAt("0123456789", i + 1)

LUName(i)    == IF i = 1 THEN "TestLU" ELSE "OtherLu" \o Digit(i)
LULabel(i)   == IF i = 1 THEN "Test Logical Unit" ELSE ""
ViewName(j)  == IF j = 1 THEN "TEST_VIEW" ELSE "VIEW_" \o Digit(j)
CustomCol(k) == IF k = 1 THEN "C_TEST_FIELD" ELSE "C_FIELD_" \o Digit(k)
StdCol(k)    == "STD_" \o Digit(k)
ColLabel(k)  == IF k = 1 THEN "Test Field" ELSE IF k = 2 THEN "Net ^ Gross" ELSE "Field " \o Digit(k)

\* parser.py:87-92: is_custom is control.startswith('C_')
MkCol(k, custom) ==
  LET control == IF custom THEN CustomCol(k) ELSE StdCol(k)
  IN  [control |-> control, label |-> ColLabel(k), is_custom |-> StartsWith(control, "C_")]

MkView(j, flags) ==
  [control |-> ViewName(j), label |-> "Test View",
   columns |-> [k \in 1..Len(flags) |-> MkCol(k, flags[k])]]

MkLU(i, views) ==
  [id |-> LUName(i), name |-> LUName(i), label |-> LULabel(i), views |-> views]

ColFlags(n) == UNION {[1..k -> BOOLEAN] : k \in 0..n}

\* The view lists whose views are numbered from j and that have at most n nodes.
RECURSIVE ViewLists(_, _)
ViewLists(j, n) ==
  IF n <= 0 THEN {<<>>}
  ELSE {<<>>} \cup
       UNION {{<<MkView(j, f)>> \o rest : rest \in ViewLists(j + 1, n - 1 - Len(f))}
              : f \in ColFlags(n - 1)}

NodesOfViews(vs) == Len(vs) + Len(Join([j \in 1..Len(vs) |-> Tabs(Len(vs[j].columns))]))

RECURSIVE LULists(_, _)
LULists(i, n) ==
  IF n <= 0 THEN {<<>>}
  ELSE {<<>>} \cup
       UNION {{<<MkLU(i, vs)>> \o rest : rest \in LULists(i + 1, n - 1 - NodesOfViews(vs))}
              : vs \in ViewLists(1, n - 1)}

MkData(lus) == [module |-> "ESSPRO", layer |-> "Cust", logical_units |-> lus]

Trees == {MkData(lus) : lus \in LULists(1, MaxNodes)}

\* The tree of lng_generator.py's and trs_generator.py's test data.
ScenarioTree == MkData(<<MkLU(1, <<MkView(1, <<TRUE>>)>>)>>)

\* The same tree under other module and layer names.
NamedTrees ==
  {[ScenarioTree EXCEPT !.module = n[1], !.layer = n[2]]
     : n \in {<<"esspro", "Cust">>, <<"PROJ", "Cust">>, <<"activityEstimate", "Core">>}}

(***************************************************************************)
(* parser.py: extract_custom_fields                                        *)
(***************************************************************************)
IsCustom(col) == col.is_custom

\* Variant of filter_view: the columns kept are rebuilt without their flag set.
filter_view_unflag(view) ==
  [view EXCEPT !.columns =
     [k \in 1..Len(SelectSeq(view.columns, IsCustom)) |->
        [SelectSeq(view.columns, IsCustom)[k] EXCEPT !.is_custom = FALSE]]]

filter_view(view) == [view EXCEPT !.columns = SelectSeq(view.columns, IsCustom)]
HasColumns(view) == view.columns # <<>>

filter_lu(lu) ==
  [lu EXCEPT !.views =
     SelectSeq([j \in 1..Len(lu.views) |-> filter_view(lu.views[j])], HasColumns)]
\* Variant of HasViews: a logical unit is kept whatever is left of it.
HasViews_any(lu) == TRUE

HasViews(lu) == lu.views # <<>>

extract_custom_fields(parsed_data) ==
  [parsed_data EXCEPT !.logical_units =
     SelectSeq([i \in 1..Len(parsed_data.logical_units) |->
                   filter_lu(parsed_data.logical_units[i])], HasViews)]

(***************************************************************************)
(* lng_generator.py: LNGGenerator                                          *)
(***************************************************************************)
\* '\r\n'.join(header) + '\r\n'
RECURSIVE JoinCRLF(_)
JoinCRLF(lines) ==
  IF lines = <<>> THEN "" ELSE Head(lines) \o "\r\n" \o JoinCRLF(Tail(lines))

Rule == "-------------------------------------------------------"

LNG_generate_header(module, layer) ==
  JoinCRLF(<<Rule,
             "File Type: IFS Foundation Language File",
             "Type version: 10.00",
             Rule,
             "Module: " \o module,
             "Layer: " \o layer,
             "Main Type: LU",
             "Sub Type: Logical Unit",
             "Content: ",
             Rule>>)

\* lines.extend(block) for every element, in order
RECURSIVE Flatten(_)
Flatten(blocks) ==
  IF blocks = <<>> THEN <<>> ELSE Head(blocks) \o Flatten(Tail(blocks))

\* Variant of LNG_generate_column_block: the prompt line at the depth of its CS line.
LNG_generate_column_block_flat(col_data, indent_level) ==
  LET indent == Tabs(indent_level)
  IN  << indent \o "CS:" \o col_data.control \o "^LU^Column^N^N\r\n",
         indent \o "A:Prompt^" \o col_data.label \o "^\r\n",
         indent \o "CE:\r\n" >>

LNG_generate_column_block(col_data, indent_level) ==
  LET indent == Tabs(indent_level)
  IN  << indent \o "CS:" \o col_data.control \o "^LU^Column^N^N\r\n",
         indent \o "\tA:Prompt^" \o col_data.label \o "^\r\n",
         indent \o "CE:\r\n" >>

\* Variant of LNG_generate_view_block: one flag field short on the CS line.
LNG_generate_view_block_short(view_data, indent_level) ==
  LET indent == Tabs(indent_level)
      Col(c) == IF c.is_custom THEN LNG_generate_column_block(c, indent_level + 1)
                ELSE <<>>
  IN  << indent \o "CS:" \o view_data.control \o "^LU^View^N\r\n" >>
      \o Flatten([k \in 1..Len(view_data.columns) |-> Col(view_data.columns[k])])
      \o << indent \o "CE:\r\n" >>

\* Variant of LNG_generate_view_block: no block for a view without custom column.
LNG_generate_view_block_custom_only(view_data, indent_level) ==
  LET indent == Tabs(indent_level)
      Col(c) == IF c.is_custom THEN LNG_generate_column_block(c, indent_level + 1)
                ELSE <<>>
  IN  IF SelectSeq(view_data.columns, IsCustom) = <<>> THEN <<>>
      ELSE << indent \o "CS:" \o view_data.control \o "^LU^View^N^N\r\n" >>
             \o Flatten([k \in 1..Len(view_data.columns) |-> Col(view_data.columns[k])])
             \o << indent \o "CE:\r\n" >>

LNG_generate_view_block(view_data, indent_level) ==
  LET indent == Tabs(indent_level)
      Col(c) == IF c.is_custom THEN LNG_generate_column_block(c, indent_level + 1)
                ELSE <<>>
  IN  << indent \o "CS:" \o view_data.control \o "^LU^View^N^N\r\n" >>
      \o Flatten([k \in 1..Len(view_data.columns) |-> Col(view_data.columns[k])])
      \o << indent \o "CE:\r\n" >>

\* Variant of LNG_generate_lu_block: the CE line one tab deeper than the CS line.
LNG_generate_lu_block_deep_ce(lu_data, indent_level) ==
  LET indent == Tabs(indent_level)
      View(v) == LNG_generate_view_block(v, indent_level + 1)
  IN  << indent \o "CS:" \o lu_data.name \o "^LU^Logical Unit^N^N\r\n",
         indent \o "\tA:Prompt^" \o lu_data.label \o "^\r\n" >>
      \o Flatten([k \in 1..Len(lu_data.views) |-> View(lu_data.views[k])])
      \o << indent \o "\tCE:\r\n" >>

LNG_generate_lu_block(lu_data, indent_level) ==
  LET indent == Tabs(indent_level)
      View(v) == LNG_generate_view_block(v, indent_level + 1)
  IN  << indent \o "CS:" \o lu_data.name \o "^LU^Logical Unit^N^N\r\n",
         indent \o "\tA:Prompt^" \o lu_data.label \o "^\r\n" >>
      \o Flatten([k \in 1..Len(lu_data.views) |-> View(lu_data.views[k])])
      \o << indent \o "CE:\r\n" >>

LNG_content_lines(data) ==
  LET LU(lu) == LNG_generate_lu_block(lu, 0)
  IN  Flatten([k \in 1..Len(data.logical_units) |-> LU(data.logical_units[k])])

LNG_generate_content(data) == Join(LNG_content_lines(data))

\* generate_file: header + content, written with newline='' (no translation)
LNG_file_text(data) ==
  LNG_generate_header(data.module, data.layer) \o LNG_generate_content(data)

LNG_get_file_name(module, layer) ==
  Capitalize(module) \o "_LU_LogicalUnit-" \o layer \o ".lng"

(***************************************************************************)
(* trs_generator.py: TRSGenerator                                          *)
(***************************************************************************)
\* LANGUAGES table, else language.split('-')[0]
lang_code(language) ==
  IF language = "sv-SE" THEN "sv"
  ELSE IF language = "nb-NO" THEN "no"
  ELSE BeforeHyphen(language)

\* Variant of TRS_generate_header: the ten lines of the definition header with
\* the translation declaration.
TRS_generate_header_ten(module, layer, language) ==
  JoinCRLF(<<Rule,
             "File Type: IFS Foundation Translation File",
             "Type version: 10.00",
             Rule,
             "Module: " \o module,
             "Layer: " \o layer,
             "Main Type: LU",
             "Sub Type: Logical Unit",
             "Content: ",
             Rule>>)

TRS_generate_header(module, layer, language) ==
  JoinCRLF(<<Rule,
             "File Type: IFS Foundation Translation File",
             "Type version: 10.00",
             Rule,
             "Module: " \o module,
             "Language: " \o lang_code(language),
             "Culture: " \o language,
             "Layer: " \o layer,
             "Main Type: LU",
             "Sub Type: Logical Unit",
             "Content: ",
             Rule>>)

\* Variant of Lookup: an absent entry gives the empty text.
Lookup_blank(translations, label) ==
  IF label \in DOMAIN translations THEN translations[label] ELSE ""

\* translations.get(original_label, original_label)
Lookup(translations, label) ==
  IF label \in DOMAIN translations THEN translations[label] ELSE label

\* Variant of TRS_generate_column_block: the prompt carries the original label.
TRS_generate_column_block_untranslated(col_data, translations, indent_level) ==
  LET indent == Tabs(indent_level)
  IN  << indent \o "CS:" \o col_data.control \o "^LU\r\n",
         indent \o "\tP:" \o col_data.label \o "^\r\n",
         indent \o "\tA:Prompt^" \o col_data.label \o "^\r\n",
         indent \o "CE:\r\n" >>

TRS_generate_column_block(col_data, translations, indent_level) ==
  LET indent == Tabs(indent_level)
  IN  << indent \o "CS:" \o col_data.control \o "^LU\r\n",
         indent \o "\tP:" \o col_data.label \o "^\r\n",
         indent \o "\tA:Prompt^" \o Lookup(translations, col_data.label) \o "^\r\n",
         indent \o "CE:\r\n" >>

\* Variant of TRS_generate_view_block: the view's label as the CS identifier.
TRS_generate_view_block_by_label(view_data, translations, indent_level) ==
  LET indent == Tabs(indent_level)
      Col(c) == IF c.is_custom
                THEN TRS_generate_column_block(c, translations, indent_level + 1)
                ELSE <<>>
  IN  << indent \o "CS:" \o view_data.label \o "^LU\r\n" >>
      \o Flatten([k \in 1..Len(view_data.columns) |-> Col(view_data.columns[k])])
      \o << indent \o "CE:\r\n" >>

TRS_generate_view_block(view_data, translations, indent_level) ==
  LET indent == Tabs(indent_level)
      Col(c) == IF c.is_custom
                THEN TRS_generate_column_block(c, translations, indent_level + 1)
                ELSE <<>>
  IN  << indent \o "CS:" \o view_data.control \o "^LU\r\n" >>
      \o Flatten([k \in 1..Len(view_data.columns) |-> Col(view_data.columns[k])])
      \o << indent \o "CE:\r\n" >>

TRS_generate_lu_block(lu_data, translations, indent_level) ==
  LET indent == Tabs(indent_level)
      View(v) == TRS_generate_view_block(v, translations, indent_level + 1)
  IN  << indent \o "CS:" \o lu_data.name \o "^LU\r\n" >>
      \o Flatten([k \in 1..Len(lu_data.views) |-> View(lu_data.views[k])])
      \o << indent \o "CE:\r\n" >>

TRS_content_lines(data, translations) ==
  LET LU(lu) == TRS_generate_lu_block(lu, translations, 0)
  IN  Flatten([k \in 1..Len(data.logical_units) |-> LU(data.logical_units[k])])

TRS_generate_content(data, translations) == Join(TRS_content_lines(data, translations))

TRS_file_text(data, translations, language) ==
  TRS_generate_header(data.module, data.layer, language)
    \o TRS_generate_content(data, translations)

TRS_get_file_name(module, layer, language) ==
  Capitalize(module) \o "_LU_LogicalUnit-" \o layer \o "-" \o lang_code(language) \o ".trs"

(***************************************************************************)
(* validator.py: the checks of IFSValidator, as functions from the lines   *)
(* read to the findings they append.  Findings are the message strings the *)
(* code formats.                                                           *)
(***************************************************************************)
\* str(n) for n >= 0
RECURSIVE Str(_)
Str(n) == IF n < 10 THEN Digit(n) ELSE Str(n \div 10) \o Digit(n % 10)

LngType == "IFS Foundation Language File"
TrsType == "IFS Foundation Translation File"
required_fields == <<"Module:", "Layer:", "Main Type:", "Sub Type:">>

\* Variant of header_text: the whole file is scanned.
header_text_whole(lines) == Join(lines)

\* ''.join(lines[:15])
header_text(lines) ==
  Join(SubSeq(lines, 1, IF Len(lines) < 15 THEN Len(lines) ELSE 15))

MissingFieldError(field) == "Missing required header field: " \o field

\* Variant of header_errors: no test of the number of lines.
header_errors_any_length(lines, is_lng) ==
  LET expected_type == IF is_lng THEN LngType ELSE TrsType
      text == header_text(lines)
      Missing(field) == ~Contains(text, field)
  IN  (IF ~Contains(text, expected_type)
       THEN <<"Invalid file type header. Expected: " \o expected_type>>
       ELSE <<>>)
      \o [k \in 1..Len(SelectSeq(required_fields, Missing)) |->
            MissingFieldError(SelectSeq(required_fields, Missing)[k])]

\* _validate_header: the errors it appends
header_errors(lines, is_lng) ==
  IF Len(lines) < 10 THEN <<"File too short, missing header">>
  ELSE LET expected_type == IF is_lng THEN LngType ELSE TrsType
           text == header_text(lines)
           Missing(field) == ~Contains(text, field)
       IN  (IF ~Contains(text, expected_type)
            THEN <<"Invalid file type header. Expected: " \o expected_type>>
            ELSE <<>>)
           \o [k \in 1..Len(SelectSeq(required_fields, Missing)) |->
                 MissingFieldError(SelectSeq(required_fields, Missing)[k])]

\* _validate_header: the warnings it appends
header_warnings(lines) ==
  IF Len(lines) < 10 THEN <<>>
  ELSE IF ~Contains(header_text(lines), "Type version: 10.00")
       THEN <<"Type version is not 10.00">>
       ELSE <<>>

\* Variant of find_content_start: the content starts at the first line that
\* begins with 'CS:' or 'CE:'.
find_content_start_block(lines) ==
  LET at == {n \in 1..Len(lines) :
               \/ StartsWith(Strip(lines[n]), "CS:")
               \/ StartsWith(Strip(lines[n]), "CE:")}
  IN  IF at = {} THEN -1 ELSE SetMin(at) - 1

\* _find_content_start: the 0-based index of the first line that begins with
\* 'CS:' once trimmed; -1 stands for None.
find_content_start(lines) ==
  LET at == {n \in 1..Len(lines) : StartsWith(Strip(lines[n]), "CS:")}
  IN  IF at = {} THEN -1 ELSE SetMin(at) - 1

\* re.match(r'CS:([^^]+)', stripped) on a line that begins with 'CS:': the
\* characters after 'CS:' up to the first caret; no match when there are none.
cs_matches(stripped) ==
  Len(stripped) > 3 /\ CharAt(stripped, 4) # "^"
cs_identifier(stripped) ==
  LET carets == {n \in 4..Len(stripped) : CharAt(stripped, n) = "^"}
  IN  SubSeq(stripped, 4, IF carets = {} THEN Len(stripped) ELSE SetMin(carets) - 1)

MalformedError(line_num, stripped) ==
  "Line " \o Str(line_num) \o ": Malformed CS line: " \o stripped
CEWithoutCSError(line_num) ==
  "Line " \o Str(line_num) \o ": CE without matching CS"
NotClosedError(entry) ==
  "Line " \o Str(entry.line_num) \o ": CS '" \o entry.identifier \o "' not closed with CE"

\* Variant of pairing_stack: a CE: line closes the oldest open block (first in,
\* first out) instead of the newest.
pairing_stack_fifo(stack, stripped, line_num) ==
  IF StartsWith(stripped, "CS:")
  THEN IF cs_matches(stripped)
       THEN Append(stack, [identifier |-> cs_identifier(stripped), line_num |-> line_num])
       ELSE stack
  ELSE IF StartsWith(stripped, "CE:")
       THEN IF stack = <<>> THEN stack ELSE Tail(stack)
       ELSE stack

\* Variant of pairing_stack: a CS: line without identifier is pushed as well.
pairing_stack_push_malformed(stack, stripped, line_num) ==
  IF StartsWith(stripped, "CS:")
  THEN Append(stack, [identifier |-> cs_identifier(stripped), line_num |-> line_num])
  ELSE IF StartsWith(stripped, "CE:")
       THEN IF stack = <<>> THEN stack ELSE SubSeq(stack, 1, Len(stack) - 1)
       ELSE stack

\* One turn of the loop of _validate_cs_ce_pairing: the stack after the line.
pairing_stack(stack, stripped, line_num) ==
  IF StartsWith(stripped, "CS:")
  THEN IF cs_matches(stripped)
       THEN Append(stack, [identifier |-> cs_identifier(stripped), line_num |-> line_num])
       ELSE stack
  ELSE IF StartsWith(stripped, "CE:")
       THEN IF stack = <<>> THEN stack ELSE SubSeq(stack, 1, Len(stack) - 1)
       ELSE stack

\* One turn of the loop of _validate_cs_ce_pairing: the errors it appends.
pairing_errors(stack, stripped, line_num) ==
  IF StartsWith(stripped, "CS:")
  THEN IF cs_matches(stripped) THEN <<>> ELSE <<MalformedError(line_num, stripped)>>
  ELSE IF StartsWith(stripped, "CE:") /\ stack = <<>>
       THEN <<CEWithoutCSError(line_num)>>
       ELSE <<>>

\* Variant of pairing_raises: stack.pop() is called on every CE: line.
pairing_raises_unguarded(stack, stripped) ==
  ~StartsWith(stripped, "CS:") /\ StartsWith(stripped, "CE:") /\ stack = <<>>

\* One turn of the loop of _validate_cs_ce_pairing raises: match.group(1) is
\* evaluated (line 119) with no match, or stack.pop() (line 128) with the stack
\* empty.
pairing_raises(stack, stripped) ==
  LET group_called == StartsWith(stripped, "CS:") /\ cs_matches(stripped)
      pop_called == /\ ~StartsWith(stripped, "CS:") /\ StartsWith(stripped, "CE:")
                    /\ ~(stack = <<>>)
  IN  \/ group_called /\ ~cs_matches(stripped)
      \/ pop_called /\ stack = <<>>

\* Variant of unclosed_errors: only the block opened last is reported.
unclosed_errors_last(stack) ==
  IF stack = <<>> THEN <<>> ELSE <<NotClosedError(stack[Len(stack)])>>

\* After the loop: one error per entry left on the stack, bottom first.
unclosed_errors(stack) == [k \in 1..Len(stack) |-> NotClosedError(stack[k])]

IndentWarning(line_num) ==
  "Line " \o Str(line_num) \o ": Uses spaces instead of tabs for indentation"

\* _validate_indentation: the warnings of the lines from content_start on
indentation_line(line, line_num) ==
  IF Strip(line) = "" THEN <<>>
  ELSE IF StartsWith(line, " ") /\ ~StartsWith(line, "\t")
       THEN <<IndentWarning(line_num)>>
       ELSE <<>>

\* Variant of indentation_warnings: every line of the file is examined.
indentation_warnings_whole_file(lines, content_start) ==
  Flatten([n \in 1..Len(lines) |-> indentation_line(lines[n], n)])

indentation_warnings(lines, content_start) ==
  Flatten([n \in 1..(Len(lines) - content_start) |->
             indentation_line(lines[content_start + n], content_start + n)])

CSFormatLngError(line_num, got) ==
  "Line " \o Str(line_num) \o ": Invalid CS format. Expected 5 parts, got " \o Str(got)
CSFormatTrsError(line_num, got) ==
  "Line " \o Str(line_num) \o ": Invalid CS format for .trs. Expected 2 parts, got " \o Str(got)
PromptError(line_num) == "Line " \o Str(line_num) \o ": A:Prompt should end with ^"
PLineError(line_num) == "Line " \o Str(line_num) \o ": P: line should end with ^"

prompt_check(stripped, line_num) ==
  IF StartsWith(stripped, "A:Prompt^") /\ ~EndsWith(stripped, "^")
  THEN <<PromptError(line_num)>> ELSE <<>>

\* Variant of lng_structure_line: the field count is tested only on the CS:
\* lines the nesting check accepts.
lng_structure_line_accepted(line, line_num) ==
  LET stripped == Strip(line)
  IN  (IF StartsWith(stripped, "CS:") /\ cs_matches(stripped) /\ SplitCount(stripped) # 5
       THEN <<CSFormatLngError(line_num, SplitCount(stripped))>> ELSE <<>>)
      \o prompt_check(stripped, line_num)

\* One turn of the loop of _validate_lng_structure
lng_structure_line(line, line_num) ==
  LET stripped == Strip(line)
  IN  (IF StartsWith(stripped, "CS:") /\ SplitCount(stripped) # 5
       THEN <<CSFormatLngError(line_num, SplitCount(stripped))>> ELSE <<>>)
      \o prompt_check(stripped, line_num)

\* One turn of the loop of _validate_trs_structure
trs_structure_line(line, line_num) ==
  LET stripped == Strip(line)
  IN  (IF StartsWith(stripped, "CS:") /\ SplitCount(stripped) # 2
       THEN <<CSFormatTrsError(line_num, SplitCount(stripped))>> ELSE <<>>)
      \o (IF StartsWith(stripped, "P:") /\ ~EndsWith(stripped, "^")
          THEN <<PLineError(line_num)>> ELSE <<>>)
      \o prompt_check(stripped, line_num)

\* Variant of structure_errors: every line of the file is examined.
structure_errors_whole_file(lines, content_start, is_lng) ==
  Flatten([n \in 1..Len(lines) |->
             IF is_lng
             THEN lng_structure_line(lines[n], n)
             ELSE trs_structure_line(lines[n], n)])

structure_errors(lines, content_start, is_lng) ==
  Flatten([n \in 1..(Len(lines) - content_start) |->
             IF is_lng
             THEN lng_structure_line(lines[content_start + n], content_start + n)
             ELSE trs_structure_line(lines[content_start + n], content_start + n)])

(***************************************************************************)
(* State.                                                                  *)
(***************************************************************************)
VARIABLES
  caller,        \* who drives: "run" (main.py), "direct" (a caller of the
                 \* generators with its own tree), "file" (a caller of the
                 \* validator with its own file)
  pc,            \* position of the caller
  parsed_data,   \* IFSLanguageAutomation.parsed_data
  custom_data,   \* IFSLanguageAutomation.custom_data: the tree given to the encoders
  languages,     \* IFSLanguageAutomation.languages
  translations,  \* IFSLanguageAutomation.translations: language -> TranslationMap
  lang_idx,      \* position of the loops over self.languages
  file_idx,      \* position of _validate_files in the list of written files
  fs,            \* storage: path -> [text, readable]
  errors,        \* IFSValidator.errors
  warnings,      \* IFSValidator.warnings
  vpc,           \* position of validate_file
  file_path,     \* validate_file: file_path
  lines,         \* validate_file: lines
  content_start, \* validate_file: content_start (-1 is None)
  stack,         \* _validate_cs_ce_pairing: stack
  i,             \* _validate_cs_ce_pairing: i
  is_valid,      \* validate_file: the verdict returned
  backend,           \* IFSTranslator.backend
  dictionary_dir,    \* IFSTranslator.dictionary_dir is set
  translation_cache, \* IFSTranslator.translation_cache: language -> text -> text
  tr_texts,          \* translate_batch: texts of the last call
  tr_language,       \* translate_batch: target_language of the last call
  tr_result,         \* translate_batch: the mapping the last call returned
  t2pc,              \* position of a second, concurrent call of validate_file
  t2path,            \* the second call's file_path
  t2result           \* what the second call returned

translator_vars == <<backend, dictionary_dir, translation_cache, tr_texts, tr_language,
                     tr_result>>
thread_vars == <<t2pc, t2path, t2result>>

vars == <<caller, pc, parsed_data, custom_data, languages, translations, lang_idx,
          file_idx, fs, errors, warnings, vpc, file_path, lines, content_start,
          stack, i, is_valid, translator_vars, thread_vars>>

orch_vars == <<caller, parsed_data, custom_data, languages, translations, lang_idx, file_idx>>
scan_vars == <<file_path, lines, content_start, stack, i>>

NoData == [module |-> "", layer |-> "", logical_units |-> <<>>]
EmptyMap == [l \in {} |-> ""]

(***************************************************************************)
(* Inputs.                                                                 *)
(***************************************************************************)
\* Content lines a hand-written file is made of.
LinePool ==
  { "CS:A^LU\r\n",
    "CS:B^LU\r\n",
    "\tCS:C^LU^View^N^N\r\n",
    "CE:\r\n",
    "  CE:\r\n",
    "CS:^LU\r\n",
    "\tA:Prompt^x\r\n",
    "\tP:x\r\n" }

\* The lines of a file that has no header.
BarePool == {"CS:A^LU\r\n", "CS:B^LU\r\n", "CE:\r\n"}
BareContents == UNION {[1..k -> BarePool] : k \in 0..MaxLines}

Contents == UNION {[1..k -> LinePool] : k \in 0..MaxLines}

LngHeader == LNG_generate_header("ESSPRO", "Cust")
TrsHeader == TRS_generate_header("ESSPRO", "Cust", "sv-SE")

\* Hand-written headers: the type declaration of either kind, a version, any
\* of the four field lines replaced by a line without a label, the ten lines in
\* the order of the generator or in the opposite order.
FieldLines == <<"Module: ESSPRO", "Layer: Cust", "Main Type: LU", "Sub Type: Logical Unit">>
Filler == "Comment: none"
Reverse(ls) == [k \in 1..Len(ls) |-> ls[Len(ls) + 1 - k]]
HeaderVariant(type, version, present, reversed) ==
  LET ten == <<Rule, "File Type: " \o type, "Type version: " \o version, Rule>>
               \o [k \in 1..4 |-> IF k \in present THEN FieldLines[k] ELSE Filler]
               \o <<"Content: ", Rule>>
  IN  JoinCRLF(IF reversed THEN Reverse(ten) ELSE ten)

\* A header whose field lines come after the fifteenth line of the file.
LateHeader ==
  JoinCRLF(<<Rule, "File Type: " \o TrsType, "Type version: 10.00">>
             \o [k \in 1..12 |-> Filler] \o FieldLines)

HeaderFiles ==
  {[path |-> p, text |-> HeaderVariant(t, v, S, r) \o "CS:A^LU\r\nCE:\r\n", readable |-> TRUE]
     : p \in {"hdr.lng", "hdr.trs"}, t \in {LngType, TrsType}, v \in {"10.00", "9.00"},
       S \in SUBSET (1..4), r \in BOOLEAN}
  \cup
  {[path |-> "hdr.trs", text |-> LateHeader \o "CS:A^LU\r\nCE:\r\n", readable |-> TRUE],
   [path |-> "hdr.trs", text |-> HeaderVariant(LngType, "9.00", {}, FALSE) \o " CE:\r\n\tP:x\r\n",
    readable |-> TRUE]}

\* Files with lines that begin with a space, in the header and in the content,
\* and with lines of whitespace only.
IndentFiles ==
  {[path |-> "indent.trs", text |-> t, readable |-> TRUE]
     : t \in { JoinCRLF(<<Rule, " File Type: " \o TrsType, " Type version: 10.00", Rule>>
                          \o FieldLines \o <<"Content: ", Rule>>)
                 \o "CS:A^LU\r\n CE:\r\n",
               TrsHeader \o "CS:A^LU\r\n   \r\n \tA:Prompt^x^\r\n\t CE:\r\n\r\n",
               TrsHeader \o " x\r\n" }}

\* Files whose name has another extension, or none.
UnknownKindFiles ==
  {[path |-> p, text |-> t, readable |-> TRUE]
     : p \in {"in.txt", "in.LNG", "in.lng.bak", "lng"},
       t \in {"", LngHeader, LngHeader \o "CS:A^LU\r\n", "CS:A^LU\r\nCS:B^LU\r\nCE:\r\n",
               TrsHeader \o "  CS:A^LU\r\n  CE:\r\n\tP:x\r\n"}}

\* Files with a CS line that has no identifier: 'CS:' alone, or a caret right
\* after it, inside an open block and outside of any.
MalformedFiles ==
  {[path |-> "cs.trs", text |-> TrsHeader \o t, readable |-> TRUE]
     : t \in { "CS:A^LU\r\nCS:\r\nCE:\r\nCE:\r\n",
               "CS:A^LU\r\n\tCS:^LU\r\nCE:\r\n",
               "CS:B^LU\r\nCE:\r\nCS:\r\nCE:\r\n",
               "CS:A^LU\r\nCE:\r\nCE:\r\nCS:B^LU\r\n\tCS:^LU\r\n" }}

InputFiles ==
  {[path |-> "in.lng", text |-> LngHeader \o Join(c), readable |-> TRUE] : c \in Contents}
  \cup
  {[path |-> "in.trs", text |-> TrsHeader \o Join(c), readable |-> TRUE] : c \in Contents}
  \cup
  {[path |-> "bare.trs", text |-> Join(c), readable |-> TRUE] : c \in BareContents}
  \cup
  {[path |-> "bare.lng", text |-> Join(c), readable |-> TRUE]
     : c \in {<<"CS:A^LU\r\n", "CS:B^LU\r\n", "CE:\r\n">>, <<"CE:\r\n">>}}
  \cup
  {[path |-> "in.lng", text |-> LngHeader, readable |-> FALSE]}
  \cup UnknownKindFiles \cup HeaderFiles \cup IndentFiles \cup MalformedFiles

\* The paths a caller of the validator may name.
CandidatePaths == DOMAIN fs \cup {"missing.lng"}

\* The TranslationMaps a backend may hand back.
\* The Swedish text of the scenario tree's column label, 'Testfält'.  Files are
\* written and read as UTF-8, so a text is its sequence of characters; the
\* letter a-umlaut is spelled "ae" to keep the model's texts within ASCII.
Testfalt == "Testfaelt"

TranslationMaps == {EmptyMap, [l \in {"Test Field"} |-> Testfalt]}

\* self.languages: the list given to the orchestrator (default sv-SE, nb-NO).
LanguageLists ==
  {<<"sv-SE">>, <<"sv-SE", "nb-NO">>, <<"de-DE">>, <<"fi">>, <<"sv-SE", "sv-FI">>}

\* The trees that are run with every language list; the others with sv-SE.
LanguagesFor(data) ==
  IF data \in NamedTrees \cup {ScenarioTree} THEN LanguageLists ELSE {<<"sv-SE">>}

(***************************************************************************)
(* Init: after construction of IFSLanguageAutomation and _parse_xml (the   *)
(* parsed tree is the input), or with one file in storage for a caller of  *)
(* the validator.                                                          *)
(***************************************************************************)
ValidatorInit ==
  /\ errors = <<>>
  /\ warnings = <<>>
  /\ vpc = "idle"
  /\ file_path = ""
  /\ lines = <<>>
  /\ content_start = -1
  /\ stack = <<>>
  /\ i = 0
  /\ is_valid = FALSE

InitTree ==
  /\ caller \in {"run", "direct"}
  /\ pc = "parsed"
  /\ parsed_data \in Trees \cup NamedTrees
  /\ languages \in LanguagesFor(parsed_data)
  /\ fs = [p \in {} |-> [text |-> "", readable |-> TRUE]]

InitFile ==
  /\ caller = "file"
  /\ pc = "client"
  /\ parsed_data = NoData
  /\ languages = <<>>
  /\ \E f \in InputFiles :
       fs = [p \in {f.path} |-> [text |-> f.text, readable |-> f.readable]]

\* IFSTranslator.__init__, and no second call of validate_file.
TranslatorInit ==
  /\ backend = "dictionary"
  /\ dictionary_dir = FALSE
  /\ translation_cache = [l \in {} |-> EmptyMap]
  /\ tr_texts = <<>>
  /\ tr_language = ""
  /\ tr_result = EmptyMap
NoThread ==
  /\ t2pc = "none"
  /\ t2path = ""
  /\ t2result = <<>>

Init ==
  /\ InitTree \/ InitFile
  /\ TranslatorInit /\ NoThread
  /\ custom_data = NoData
  /\ translations = [l \in {} |-> EmptyMap]
  /\ lang_idx = 1
  /\ file_idx = 1
  /\ ValidatorInit

(***************************************************************************)
(* main.py: the steps of IFSLanguageAutomation.run                         *)
(***************************************************************************)
Write(path, text) ==
  [p \in DOMAIN fs \cup {path} |->
     IF p = path THEN [text |-> text, readable |-> TRUE] ELSE fs[p]]

validator_vars == <<errors, warnings, vpc, file_path, lines, content_start, stack, i, is_valid>>

\* _extract_custom_fields
ExtractCustomFields ==
  /\ UNCHANGED <<translator_vars, thread_vars>>
  /\ pc = "parsed" /\ caller = "run"
  /\ custom_data' = extract_custom_fields(parsed_data)
  /\ pc' = "extracted"
  /\ UNCHANGED <<caller, parsed_data, languages, translations, lang_idx, file_idx, fs,
                 validator_vars>>

\* A caller that hands its tree to the generators as it is.
UseUnfiltered ==
  /\ UNCHANGED <<translator_vars, thread_vars>>
  /\ pc = "parsed" /\ caller = "direct"
  /\ custom_data' = parsed_data
  /\ pc' = "extracted"
  /\ UNCHANGED <<caller, parsed_data, languages, translations, lang_idx, file_idx, fs,
                 validator_vars>>

LngPath == LNG_get_file_name(custom_data.module, custom_data.layer)
TrsPath(language) == TRS_get_file_name(custom_data.module, custom_data.layer, language)

\* _generate_lng_file
GenerateLngFile ==
  /\ UNCHANGED <<translator_vars, thread_vars>>
  /\ pc = "extracted"
  /\ fs' = Write(LngPath, LNG_file_text(custom_data))
  /\ pc' = "lng_written"
  /\ UNCHANGED <<orch_vars, validator_vars>>

\* _translate_labels: one TranslationMap per language
TranslateLabels ==
  /\ UNCHANGED <<translator_vars, thread_vars>>
  /\ pc = "lng_written"
  /\ \E tm \in TranslationMaps :
       translations' = [l \in {languages[n] : n \in 1..Len(languages)} |-> tm]
  /\ pc' = "translated"
  /\ lang_idx' = 1
  /\ UNCHANGED <<caller, parsed_data, custom_data, languages, file_idx, fs, validator_vars>>

\* _generate_trs_files: one turn of the loop over self.languages
GenerateTrsFile ==
  /\ UNCHANGED <<translator_vars, thread_vars>>
  /\ pc = "translated"
  /\ LET language == languages[lang_idx]
     IN  fs' = Write(TrsPath(language),
                     TRS_file_text(custom_data, translations[language], language))
  /\ IF lang_idx = Len(languages)
     THEN pc' = "validate" /\ lang_idx' = 1
     ELSE pc' = pc /\ lang_idx' = lang_idx + 1
  /\ file_idx' = 1
  /\ UNCHANGED <<caller, parsed_data, custom_data, languages, translations, validator_vars>>

\* _validate_files: the .lng file, then the .trs file of every language
OutputFiles == <<LngPath>> \o [n \in 1..Len(languages) |-> TrsPath(languages[n])]

(***************************************************************************)
(* validator.py: IFSValidator.validate_file, step by step                  *)
(***************************************************************************)
\* str(e) of the exception open() raises on a file that cannot be read.
ReadFailure(path) == "[Errno 13] Permission denied: '" \o path \o "'"

is_lng == Suffix(file_path) = ".lng"
is_trs == Suffix(file_path) = ".trs"

\* Variant of Begin: a file of unknown type gets its error and is checked on.
Begin_unknown_checked(path) ==
  /\ vpc = "idle"
  /\ file_path' = path
  /\ warnings' = <<>>
  /\ content_start' = -1
  /\ stack' = <<>>
  /\ i' = 0
  /\ is_valid' = FALSE
  /\ IF path \notin DOMAIN fs
     THEN /\ errors' = <<"File does not exist: " \o path>>
          /\ lines' = <<>>
          /\ vpc' = "done"
     ELSE IF ~fs[path].readable
     THEN /\ errors' = <<"Failed to read file: " \o ReadFailure(path)>>
          /\ lines' = <<>>
          /\ vpc' = "done"
     ELSE /\ lines' = ReadLines(fs[path].text)
          /\ errors' = IF Suffix(path) \notin {".lng", ".trs"}
                       THEN <<"Unknown file type: " \o Suffix(path)>> ELSE <<>>
          /\ vpc' = "header"

\* validate_file up to the file type test (lines 28-51)
Begin(path) ==
  /\ vpc = "idle"
  /\ file_path' = path
  /\ warnings' = <<>>
  /\ content_start' = -1
  /\ stack' = <<>>
  /\ i' = 0
  /\ IF path \notin DOMAIN fs
     THEN /\ errors' = <<"File does not exist: " \o path>>
          /\ lines' = <<>>
          /\ is_valid' = FALSE
          /\ vpc' = "done"
     ELSE IF ~fs[path].readable
     THEN /\ errors' = <<"Failed to read file: " \o ReadFailure(path)>>
          /\ lines' = <<>>
          /\ is_valid' = FALSE
          /\ vpc' = "done"
     ELSE /\ lines' = ReadLines(fs[path].text)
          /\ IF Suffix(path) \notin {".lng", ".trs"}
             THEN /\ errors' = <<"Unknown file type: " \o Suffix(path)>>
                  /\ is_valid' = FALSE
                  /\ vpc' = "done"
             ELSE /\ errors' = <<>>
                  /\ is_valid' = FALSE
                  /\ vpc' = "header"

\* A caller of the validator names a path.
ClientValidate ==
  /\ UNCHANGED <<translator_vars, thread_vars>>
  /\ pc = "client"
  /\ \E path \in CandidatePaths : Begin(path)
  /\ pc' = "client_called"
  /\ UNCHANGED <<orch_vars, fs>>

\* _validate_single_file: the call of validate_file
RunValidate ==
  /\ UNCHANGED <<translator_vars, thread_vars>>
  /\ pc = "validate"
  /\ Begin(OutputFiles[file_idx])
  /\ UNCHANGED <<pc, orch_vars, fs>>

\* _validate_single_file after the call: raise on errors, else the next file
RunValidated ==
  /\ UNCHANGED <<translator_vars, thread_vars>>
  /\ pc = "validate" /\ vpc = "done"
  /\ IF errors # <<>>
     THEN pc' = "failed" /\ file_idx' = file_idx /\ vpc' = vpc
     ELSE IF file_idx = Len(OutputFiles)
          THEN pc' = "success" /\ file_idx' = file_idx /\ vpc' = vpc
          ELSE pc' = pc /\ file_idx' = file_idx + 1 /\ vpc' = "idle"
  /\ UNCHANGED <<caller, parsed_data, custom_data, languages, translations, lang_idx, fs,
                 errors, warnings, scan_vars, is_valid>>

\* Variant of SingleFileValidated: warnings fail the file as errors do.
SingleFileValidated_strict ==
  /\ UNCHANGED <<translator_vars, thread_vars>>
  /\ caller = "file" /\ pc = "client_called" /\ vpc = "done"
  /\ pc' = IF errors # <<>> \/ warnings # <<>> THEN "failed" ELSE "success"
  /\ UNCHANGED <<orch_vars, fs, validator_vars>>

\* _validate_single_file called for one stored file, after the call of
\* validate_file: raise on errors; warnings are logged only.
SingleFileValidated ==
  /\ UNCHANGED <<translator_vars, thread_vars>>
  /\ caller = "file" /\ pc = "client_called" /\ vpc = "done"
  /\ pc' = IF errors # <<>> THEN "failed" ELSE "success"
  /\ UNCHANGED <<orch_vars, fs, validator_vars>>

\* self._validate_header(lines, is_lng)
ValidateHeader ==
  /\ UNCHANGED <<translator_vars, thread_vars>>
  /\ vpc = "header"
  /\ errors' = errors \o header_errors(lines, is_lng)
  /\ warnings' = warnings \o header_warnings(lines)
  /\ vpc' = "find"
  /\ UNCHANGED <<pc, orch_vars, fs, scan_vars, is_valid>>

\* content_start = self._find_content_start(lines), and the early return
FindContentStart ==
  /\ UNCHANGED <<translator_vars, thread_vars>>
  /\ vpc = "find"
  /\ content_start' = find_content_start(lines)
  /\ IF content_start' = -1
     THEN /\ errors' = Append(errors, "Could not find content section")
          /\ is_valid' = FALSE
          /\ vpc' = "done"
     ELSE /\ errors' = errors
          /\ is_valid' = is_valid
          /\ vpc' = "pairing"
  /\ stack' = <<>>
  /\ i' = 0
  /\ UNCHANGED <<pc, orch_vars, fs, warnings, file_path, lines>>

\* content_lines = lines[content_start:]
NumContentLines == Len(lines) - content_start
ContentLine(n) == lines[content_start + n + 1]

\* _validate_cs_ce_pairing: one turn of the loop
PairingLine ==
  /\ UNCHANGED <<translator_vars, thread_vars>>
  /\ vpc = "pairing"
  /\ i < NumContentLines
  /\ LET line_num == i + content_start + 1
         stripped == Strip(ContentLine(i))
     IN  IF pairing_raises(stack, stripped)
         THEN vpc' = "raised" /\ UNCHANGED <<stack, errors, i>>
         ELSE /\ stack' = pairing_stack(stack, stripped, line_num)
              /\ errors' = errors \o pairing_errors(stack, stripped, line_num)
              /\ i' = i + 1
              /\ vpc' = vpc
  /\ UNCHANGED <<pc, orch_vars, fs, warnings, file_path, lines, content_start, is_valid>>

\* _validate_cs_ce_pairing: after the loop, the blocks still open
PairingEnd ==
  /\ UNCHANGED <<translator_vars, thread_vars>>
  /\ vpc = "pairing"
  /\ i = NumContentLines
  /\ errors' = errors \o unclosed_errors(stack)
  /\ vpc' = "indent"
  /\ UNCHANGED <<pc, orch_vars, fs, warnings, scan_vars, is_valid>>

\* self._validate_indentation(lines[content_start:], content_start)
ValidateIndentation ==
  /\ UNCHANGED <<translator_vars, thread_vars>>
  /\ vpc = "indent"
  /\ warnings' = warnings \o indentation_warnings(lines, content_start)
  /\ vpc' = "structure"
  /\ UNCHANGED <<pc, orch_vars, fs, errors, scan_vars, is_valid>>

\* self._validate_lng_structure / self._validate_trs_structure
ValidateStructure ==
  /\ UNCHANGED <<translator_vars, thread_vars>>
  /\ vpc = "structure"
  /\ errors' = errors \o structure_errors(lines, content_start, is_lng)
  /\ vpc' = "return"
  /\ UNCHANGED <<pc, orch_vars, fs, warnings, scan_vars, is_valid>>

\* Variant of ValidateReturn: the verdict also asks for no warnings.
ValidateReturnStrict ==
  /\ UNCHANGED <<translator_vars, thread_vars>>
  /\ vpc = "return"
  /\ is_valid' = (Len(errors) = 0 /\ Len(warnings) = 0)
  /\ vpc' = "done"
  /\ UNCHANGED <<pc, orch_vars, fs, errors, warnings, scan_vars>>

\* is_valid = len(self.errors) == 0; return
ValidateReturn ==
  /\ UNCHANGED <<translator_vars, thread_vars>>
  /\ vpc = "return"
  /\ is_valid' = (Len(errors) = 0)
  /\ vpc' = "done"
  /\ UNCHANGED <<pc, orch_vars, fs, errors, warnings, scan_vars>>

Next ==
  \/ ExtractCustomFields
  \/ UseUnfiltered
  \/ GenerateLngFile
  \/ TranslateLabels
  \/ GenerateTrsFile
  \/ ClientValidate
  \/ RunValidate
  \/ RunValidated
  \/ SingleFileValidated
  \/ ValidateHeader
  \/ FindContentStart
  \/ PairingLine
  \/ PairingEnd
  \/ ValidateIndentation
  \/ ValidateStructure
  \/ ValidateReturn

Spec == Init /\ [][Next]_vars

(***************************************************************************)
(* Properties.                                                             *)
(***************************************************************************)
Range(f) == {f[k] : k \in DOMAIN f}

\* validate_file has returned.
Returned == vpc = "done"

\* The file validated was written by the encoders from the caller's tree.
Encoded == caller \in {"run", "direct"}

\* C1: round trip: for every tree, N >= 0 logical units included, the file the
\* encoder wrote validates with zero errors, and no CS block is left open at
\* the end of the file.
C1_RoundTrip ==
  (Encoded /\ Returned) => (errors = <<>> /\ is_valid /\ stack = <<>>)

\* C2: on every return path of validate_file the verdict is true exactly when
\* the error list is empty; warnings do not enter the verdict.
C2_VerdictIffNoErrors ==
  Returned => (is_valid <=> errors = <<>>)

\* C2 witness: a file returned as valid although warnings were recorded.
C2_Witness == Returned /\ is_valid /\ warnings # <<>> /\ errors = <<>>

\* C3: in the nesting check a CE: line closes the most recently opened block
\* that is still open; met with no block open it records one error 'CE without
\* matching CS' for its line and the stack stays empty; at the end of the scan
\* every block still open gets exactly one error, with its identifier and the
\* 1-based file line number of its own CS line.
C3_IsCE == StartsWith(Strip(ContentLine(i)), "CE:")
C3_ScansLine == vpc = "pairing" /\ i < NumContentLines /\ i' = i + 1

C3_Pop ==
  (C3_ScansLine /\ C3_IsCE /\ stack # <<>>)
    => /\ stack' = [k \in 1..(Len(stack) - 1) |-> stack[k]]
       /\ errors' = errors

C3_Orphan ==
  (C3_ScansLine /\ C3_IsCE /\ stack = <<>>)
    => /\ stack' = <<>>
       /\ errors' = Append(errors,
                      "Line " \o Str(content_start + i + 1) \o ": CE without matching CS")

C3_Unclosed ==
  (vpc = "pairing" /\ vpc' = "indent")
    => errors' = errors \o
         [k \in 1..Len(stack) |->
            "Line " \o Str(stack[k].line_num) \o ": CS '" \o stack[k].identifier
              \o "' not closed with CE"]

\* Every open block names a CS: line of the file and the identifier written on it.
C3_Entries ==
  \A k \in 1..Len(stack) :
    /\ stack[k].line_num \in 1..Len(lines)
    /\ \A m \in 1..(k - 1) : stack[m].line_num < stack[k].line_num
    /\ LET line == Strip(lines[stack[k].line_num])
           id == stack[k].identifier
       IN  /\ StartsWith(line, "CS:" \o id)
           /\ ~Contains(id, "^")
           /\ Len(line) = 3 + Len(id) \/ CharAt(line, 4 + Len(id)) = "^"

C3_Nesting ==
  /\ [][C3_Pop /\ C3_Orphan /\ C3_Unclosed]_vars
  /\ []C3_Entries

\* C3 witness: CS:A, CS:B, CE: scanned to the end; the CE: closed B and A is
\* reported unclosed at its own line.
C3_Witness ==
  /\ Returned /\ file_path = "in.trs"
  /\ NumContentLines = 3 /\ i = 3
  /\ Strip(ContentLine(2)) = "CE:"
  /\ stack = <<[identifier |-> "A", line_num |-> content_start + 1]>>
  /\ errors = <<"Line 13: CS 'A' not closed with CE">>

\* validate_file read the file and knows its kind.
KnownKind ==
  /\ Returned
  /\ file_path \in DOMAIN fs
  /\ fs[file_path].readable
  /\ is_lng \/ is_trs

FileText == fs[file_path].text

ScenarioC == "CS:A^LU\r\nCS:B^LU\r\nCE:\r\n"
ScenarioD == "CE:\r\n"

\* C4 as claimed: validating the three lines CS:A^LU, CS:B^LU, CE: yields
\* exactly one error, which reports A as unclosed.
C4_Original ==
  (KnownKind /\ FileText = ScenarioC)
    => Len(errors) = 1 /\ Contains(errors[1], "CS 'A' not closed with CE")

\* C4: validating the three lines CS:A^LU, CS:B^LU, CE: yields exactly one
\* nesting error, which reports A (line 1), not B, as unclosed; the header check
\* adds 'File too short, missing header' before it, and the field check of a
\* .lng file two field-count errors after it; behind a valid translation header
\* the error for A is the only one.
C4_ScenarioC ==
  /\ (KnownKind /\ FileText = ScenarioC /\ is_trs)
       => errors = <<"File too short, missing header",
                     "Line 1: CS 'A' not closed with CE">>
  /\ (KnownKind /\ FileText = ScenarioC /\ is_lng)
       => errors = <<"File too short, missing header",
                     "Line 1: CS 'A' not closed with CE",
                     "Line 1: Invalid CS format. Expected 5 parts, got 2",
                     "Line 2: Invalid CS format. Expected 5 parts, got 2">>
  /\ (KnownKind /\ FileText = TrsHeader \o ScenarioC /\ is_trs)
       => errors = <<"Line 13: CS 'A' not closed with CE">>
  /\ (KnownKind /\ FileText \in {ScenarioC, TrsHeader \o ScenarioC})
       => ~is_valid /\ warnings = <<>>

C4_Witness == KnownKind /\ FileText = ScenarioC /\ is_trs /\ Len(errors) = 2

\* C5 as claimed: validating a CE: line that no CS: line precedes yields exactly
\* one error, 'CE without matching CS', and no warning.
C5_Original ==
  (KnownKind /\ FileText = ScenarioD)
    => /\ Len(errors) = 1 /\ Contains(errors[1], "CE without matching CS")
       /\ warnings = <<>>

IsOrphanError(e) == Contains(e, "CE without matching CS")

\* C5: a CE: line that no CS: line precedes is never examined by the nesting
\* check: the text 'CE:' alone yields the header error 'File too short, missing
\* header' and the error 'Could not find content section' (that one alone behind
\* a valid header), no warning, and no 'CE without matching CS'; that error is
\* recorded only for CE: lines after the first CS: line.
C5_ScenarioD ==
  /\ (KnownKind /\ FileText = ScenarioD)
       => /\ errors = <<"File too short, missing header",
                        "Could not find content section">>
          /\ warnings = <<>> /\ ~is_valid
  /\ (KnownKind /\ FileText \in {TrsHeader \o ScenarioD, LngHeader \o ScenarioD})
       => /\ errors = <<"Could not find content section">>
          /\ warnings = <<>> /\ ~is_valid
  /\ KnownKind
       => \A k \in 1..Len(errors) :
            IsOrphanError(errors[k])
              => \E n \in (content_start + 2)..Len(lines) :
                   /\ content_start # -1
                   /\ StartsWith(Strip(lines[n]), "CE:")
                   /\ errors[k] = "Line " \o Str(n) \o ": CE without matching CS"

C5_Witness == KnownKind /\ FileText = ScenarioD /\ content_start = -1 /\ Len(errors) = 2

\* The lines of a stored file that begin with 'CS:' once trimmed.
StoredLines(path) == ReadLines(fs[path].text)
CSLinesOf(ls) == {n \in 1..Len(ls) : StartsWith(Strip(ls[n]), "CS:")}

\* The number of blocks the encoder is to emit for a tree.
RECURSIVE Sum(_)
Sum(ns) == IF ns = <<>> THEN 0 ELSE Head(ns) + Sum(Tail(ns))
BlocksOfView(v) == 1 + Len(SelectSeq(v.columns, IsCustom))
BlocksOfLU(lu) == 1 + Sum([j \in 1..Len(lu.views) |-> BlocksOfView(lu.views[j])])
BlocksOf(data) ==
  Sum([n \in 1..Len(data.logical_units) |-> BlocksOfLU(data.logical_units[n])])

\* C6: in the file the definition encoder wrote every CS: line has exactly 5
\* caret-separated fields, in the file the translation encoder wrote exactly 2,
\* one CS: line per block of the tree, whatever its depth.
C6_EncoderFieldCounts ==
  (Encoded /\ vpc = "idle")
    => \A path \in DOMAIN fs :
         LET ls == StoredLines(path)
         IN  /\ Cardinality(CSLinesOf(ls)) = BlocksOf(custom_data)
             /\ \A n \in CSLinesOf(ls) :
                  SplitCount(Strip(ls[n])) = IF Suffix(path) = ".lng" THEN 5 ELSE 2

\* C6 witness: both files written for a tree with a column block in a view
\* block in a logical unit block.
C6_Witness ==
  /\ Encoded /\ vpc = "idle" /\ pc = "validate"
  /\ Cardinality(DOMAIN fs) = 2
  /\ \E n \in 1..Len(custom_data.logical_units) :
       \E j \in 1..Len(custom_data.logical_units[n].views) :
         \E k \in 1..Len(custom_data.logical_units[n].views[j].columns) :
           custom_data.logical_units[n].views[j].columns[k].is_custom

\* validate_file ran every check on the file.
FullyChecked == KnownKind /\ content_start # -1

CountOf(errs, Is(_)) == Len(SelectSeq(errs, Is))
IsCSFormatError(e) == Contains(e, "Invalid CS format")

C7_Message(n) ==
  IF is_lng
  THEN "Line " \o Str(n) \o ": Invalid CS format. Expected 5 parts, got "
         \o Str(SplitCount(Strip(lines[n])))
  ELSE "Line " \o Str(n) \o ": Invalid CS format for .trs. Expected 2 parts, got "
         \o Str(SplitCount(Strip(lines[n])))

C7_WrongCount(n) == SplitCount(Strip(lines[n])) # (IF is_lng THEN 5 ELSE 2)

\* C7: for every CS: line of a .lng or .trs file, whatever its depth and
\* whether or not the nesting check accepted it, the validator records a
\* per-line error exactly when the trimmed line does not split on '^' into 5
\* (.lng) or 2 (.trs) fields; the error names the expected and the actual count.
C7_FieldCountCheck ==
  /\ FullyChecked
       => /\ \A n \in CSLinesOf(lines) :
               C7_WrongCount(n) <=> C7_Message(n) \in Range(errors)
          /\ CountOf(errors, IsCSFormatError)
               = Cardinality({n \in CSLinesOf(lines) : C7_WrongCount(n)})
  /\ (KnownKind /\ content_start = -1)
       => CSLinesOf(lines) = {} /\ CountOf(errors, IsCSFormatError) = 0

\* C7 witness: a CS: line the nesting check rejected as malformed, and a nested
\* one, both counted by the field check of a .lng file.
C7_Witness ==
  /\ FullyChecked /\ is_lng
  /\ "Line 11: Malformed CS line: CS:^LU" \in Range(errors)
  /\ "Line 11: Invalid CS format. Expected 5 parts, got 2" \in Range(errors)
  /\ \E n \in CSLinesOf(lines) : StartsWith(lines[n], "\t") /\ ~C7_WrongCount(n)

BadPrompt(n) ==
  StartsWith(Strip(lines[n]), "A:Prompt^") /\ ~EndsWith(Strip(lines[n]), "^")
BadPLine(n) ==
  StartsWith(Strip(lines[n]), "P:") /\ ~EndsWith(Strip(lines[n]), "^")
C8_PromptMessage(n) == "Line " \o Str(n) \o ": A:Prompt should end with ^"
C8_PMessage(n) == "Line " \o Str(n) \o ": P: line should end with ^"
IsPromptError(e) == Contains(e, "A:Prompt should end with ^")
IsPLineError(e) == Contains(e, "P: line should end with ^")

\* C8 as claimed: every line of the file that begins with 'A:Prompt^' and does
\* not end with '^' produces a per-line error, in both kinds; every line that
\* begins with 'P:' and does not end with '^' produces one in a .trs file only.
C8_Original ==
  KnownKind
    => /\ \A n \in 1..Len(lines) :
            /\ BadPrompt(n) => C8_PromptMessage(n) \in Range(errors)
            /\ (BadPLine(n) /\ is_trs) => C8_PMessage(n) \in Range(errors)
       /\ is_lng => CountOf(errors, IsPLineError) = 0

\* The lines the field checks examine: from the first CS: line on.
Examined(n) == content_start # -1 /\ n > content_start

\* C8: every line at or after the first CS: line of the file that begins with
\* 'A:Prompt^' and does not end with '^' produces exactly one per-line error, in
\* both kinds; every such line that begins with 'P:' produces one in a .trs file
\* only; the lines before the first CS: line, and every line of a file without
\* a CS: line, produce none.
C8_PromptLines ==
  KnownKind
    => /\ \A n \in 1..Len(lines) :
            /\ (BadPrompt(n) /\ Examined(n)) <=> C8_PromptMessage(n) \in Range(errors)
            /\ (BadPLine(n) /\ Examined(n) /\ is_trs) <=> C8_PMessage(n) \in Range(errors)
       /\ CountOf(errors, IsPromptError)
            = Cardinality({n \in 1..Len(lines) : BadPrompt(n) /\ Examined(n)})
       /\ CountOf(errors, IsPLineError)
            = Cardinality({n \in 1..Len(lines) : BadPLine(n) /\ Examined(n) /\ is_trs})

\* C8 witness: an unterminated prompt line before the first CS: line and one
\* after it, in a fully checked file.
C8_Witness ==
  /\ FullyChecked
  /\ \E n \in 1..content_start : BadPrompt(n)
  /\ \E n \in (content_start + 1)..Len(lines) : BadPrompt(n)

\* Scenario A: the eight content lines of the definition file.
ScenarioA_Lines ==
  << "CS:TestLU^LU^Logical Unit^N^N\r\n",
     "\tA:Prompt^Test Logical Unit^\r\n",
     "\tCS:TEST_VIEW^LU^View^N^N\r\n",
     "\t\tCS:C_TEST_FIELD^LU^Column^N^N\r\n",
     "\t\t\tA:Prompt^Test Field^\r\n",
     "\t\tCE:\r\n",
     "\tCE:\r\n",
     "CE:\r\n" >>

\* The ten header lines of the definition file of module ESSPRO, layer Cust.
ScenarioA_Header ==
  "-------------------------------------------------------\r\n"
  \o "File Type: IFS Foundation Language File\r\n"
  \o "Type version: 10.00\r\n"
  \o "-------------------------------------------------------\r\n"
  \o "Module: ESSPRO\r\n"
  \o "Layer: Cust\r\n"
  \o "Main Type: LU\r\n"
  \o "Sub Type: Logical Unit\r\n"
  \o "Content: \r\n"
  \o "-------------------------------------------------------\r\n"

\* C9: Scenario A: for the tree TestLU / TEST_VIEW / C_TEST_FIELD the definition
\* content is exactly the eight lines of ScenarioA_Lines, each CRLF-terminated,
\* the file is the header directly followed by them, and the file validates
\* with zero errors.
C9_ScenarioA ==
  (Encoded /\ parsed_data = ScenarioTree /\ LngPath \in DOMAIN fs)
    => /\ LNG_content_lines(custom_data) = ScenarioA_Lines
       /\ fs[LngPath].text = ScenarioA_Header \o Join(ScenarioA_Lines)
       /\ (Returned /\ file_path = LngPath) => (errors = <<>> /\ is_valid)

C9_Witness ==
  /\ Encoded /\ parsed_data = ScenarioTree
  /\ Returned /\ file_path = LngPath /\ is_valid
  /\ fs[LngPath].text = ScenarioA_Header \o Join(ScenarioA_Lines)

\* Scenario B: the Scenario A tree written as the sv-SE translation file with
\* the TranslationMap {'Test Field': 'Testfält'}.
ScenarioB ==
  /\ Encoded /\ parsed_data = ScenarioTree
  /\ "sv-SE" \in DOMAIN translations
  /\ translations["sv-SE"] = [l \in {"Test Field"} |-> Testfalt]
  /\ TrsPath("sv-SE") \in DOMAIN fs

\* C10 as claimed: the Column block is CS:C_TEST_FIELD^LU, the P: line and the
\* A:Prompt line behind two tabs each, the CE: line behind one tab.
C10_Original ==
  ScenarioB
    => Contains(fs[TrsPath("sv-SE")].text,
                "CS:C_TEST_FIELD^LU\r\n\t\tP:Test Field^\r\n"
                  \o "\t\tA:Prompt^Testfaelt^\r\n\tCE:\r\n")

\* C10: Scenario B: the Column block is exactly the line CS:C_TEST_FIELD^LU
\* behind two tabs, the lines P:Test Field^ and A:Prompt^Testfält^ behind three
\* tabs each, and the line CE: behind two tabs, every line CRLF-terminated (the
\* block of a column is written at depth 2).
C10_ScenarioB ==
  ScenarioB
    => /\ TRS_content_lines(custom_data, translations["sv-SE"])
            = << "CS:TestLU^LU\r\n",
                 "\tCS:TEST_VIEW^LU\r\n",
                 "\t\tCS:C_TEST_FIELD^LU\r\n",
                 "\t\t\tP:Test Field^\r\n",
                 "\t\t\tA:Prompt^Testfaelt^\r\n",
                 "\t\tCE:\r\n",
                 "\tCE:\r\n",
                 "CE:\r\n" >>
       /\ EndsWith(fs[TrsPath("sv-SE")].text,
                   "\r\n\tCS:TEST_VIEW^LU\r\n"
                     \o "\t\tCS:C_TEST_FIELD^LU\r\n"
                     \o "\t\t\tP:Test Field^\r\n"
                     \o "\t\t\tA:Prompt^Testfaelt^\r\n"
                     \o "\t\tCE:\r\n"
                     \o "\tCE:\r\nCE:\r\n")

C10_Witness == ScenarioB /\ pc = "validate" /\ vpc = "idle" /\ file_idx = 1

\* The labels of the custom columns of a tree, in the order of the tree.
LabelsOfView(v) ==
  [k \in 1..Len(SelectSeq(v.columns, IsCustom)) |-> SelectSeq(v.columns, IsCustom)[k].label]
LabelsOfLU(lu) == Flatten([j \in 1..Len(lu.views) |-> LabelsOfView(lu.views[j])])
CustomLabelsOf(data) ==
  Flatten([n \in 1..Len(data.logical_units) |-> LabelsOfLU(data.logical_units[n])])

\* The number of tabs a line begins with.
LeadingTabs(l) ==
  LET other == {n \in 1..Len(l) : CharAt(l, n) # "\t"}
  IN  IF other = {} THEN Len(l) ELSE SetMin(other) - 1

IsCSLine(l) == StartsWith(Strip(l), "CS:")
IsCELine(l) == StartsWith(Strip(l), "CE:")
IsBodyLine(l) == ~IsCSLine(l) /\ ~IsCELine(l)

\* The translation files written so far, as the languages they are for.
WrittenIndices ==
  {m \in 1..Len(languages) :
     /\ languages[m] \in DOMAIN translations
     /\ TrsPath(languages[m]) \in DOMAIN fs
     /\ pc = "translated" => m < lang_idx}
WrittenLanguages ==
  {languages[n] : n \in {m \in WrittenIndices :
                           \A k \in WrittenIndices :
                             k > m => TrsPath(languages[k]) # TrsPath(languages[m])}}

C11_Body(ls, labels, tm) ==
  LET body == SelectSeq(ls, IsBodyLine)
  IN  /\ Len(body) = 2 * Len(labels)
      /\ \A k \in 1..Len(labels) :
           /\ body[2 * k - 1] = "\t\t\tP:" \o labels[k] \o "^\r\n"
           /\ body[2 * k] =
                "\t\t\tA:Prompt^"
                  \o (IF labels[k] \in DOMAIN tm THEN tm[labels[k]] ELSE labels[k])
                  \o "^\r\n"

C11_Shape(ls) ==
  \A n \in 1..Len(ls) :
    IsCSLine(ls[n])
      => /\ n < Len(ls)
         /\ IF LeadingTabs(ls[n]) = 2
            THEN /\ n + 3 <= Len(ls)
                 /\ StartsWith(ls[n + 1], "\t\t\tP:")
                 /\ StartsWith(ls[n + 2], "\t\t\tA:Prompt^")
                 /\ ls[n + 3] = "\t\tCE:\r\n"
            ELSE ~IsBodyLine(ls[n + 1])

\* C11: in a translation file every Column block has exactly two body lines,
\* P:<original label>^ and then A:Prompt^<t>^, t being the TranslationMap entry
\* of the original label when there is one and the original label otherwise;
\* LogicalUnit and View blocks have no body line; and the validation of the
\* file gives the same verdict and findings whether or not the map has the
\* entry: they depend on the tree alone.
C11_Fallback ==
  Encoded
    => \A lang \in WrittenLanguages :
         LET tm == translations[lang]
             ls == TRS_content_lines(custom_data, tm)
         IN  /\ vpc = "idle"
                  => /\ fs[TrsPath(lang)].text
                          = TRS_generate_header(custom_data.module, custom_data.layer, lang)
                              \o Join(ls)
                     /\ C11_Body(ls, CustomLabelsOf(custom_data), tm)
                     /\ C11_Shape(ls)
             /\ (Returned /\ file_path = TrsPath(lang))
                  => /\ warnings = <<>>
                     /\ errors = IF custom_data.logical_units = <<>>
                                 THEN <<"Could not find content section">> ELSE <<>>
                     /\ is_valid = (custom_data.logical_units # <<>>)

\* C11 witness: the translation file of a tree with the custom column labelled
\* 'Test Field' and one more, written from the TranslationMap with no entry,
\* validated.
C11_Witness ==
  /\ Encoded /\ Returned
  /\ WrittenLanguages # {}
  /\ file_path = TrsPath(languages[1])
  /\ translations[languages[1]] = EmptyMap
  /\ Len(CustomLabelsOf(custom_data)) >= 2
  /\ CustomLabelsOf(custom_data)[1] = "Test Field"
  /\ is_valid

\* The orchestrator has filtered the parsed tree.
Filtered == caller = "run" /\ pc # "parsed"

\* C12: filtering is idempotent: filtering the filtered tree changes nothing,
\* and the files written from the filtered tree are, for both kinds, the texts
\* the encoders give for the tree filtered twice.
C12_FilterIdempotent ==
  Filtered
    => /\ custom_data = extract_custom_fields(parsed_data)
       /\ extract_custom_fields(custom_data) = custom_data
       /\ LngPath \in DOMAIN fs
            => fs[LngPath].text
                 = LNG_file_text(extract_custom_fields(extract_custom_fields(parsed_data)))
       /\ \A lang \in WrittenLanguages :
            fs[TrsPath(lang)].text
              = TRS_file_text(extract_custom_fields(extract_custom_fields(parsed_data)),
                              translations[lang], lang)

\* C12 witness: both files written from a tree the filter took something from
\* and left something of.
C12_Witness ==
  /\ Filtered
  /\ custom_data # parsed_data
  /\ custom_data.logical_units # <<>>
  /\ LngPath \in DOMAIN fs
  /\ WrittenLanguages # {}

HasCustomColumn(view) == \E k \in 1..Len(view.columns) : view.columns[k].is_custom
HasCustomView(lu) == \E j \in 1..Len(lu.views) : HasCustomColumn(lu.views[j])
NamesOf(lus) == [n \in 1..Len(lus) |-> lus[n].name]
ControlsOf(items) == [n \in 1..Len(items) |-> items[n].control]

\* The custom columns of the input are all in the result, under the same
\* logical unit and view, in the order of the input.
C13_Kept(input, result) ==
  LET in_lus == SelectSeq(input.logical_units, HasCustomView)
  IN  /\ NamesOf(result.logical_units) = NamesOf(in_lus)
      /\ \A n \in 1..Len(in_lus) :
           LET in_views == SelectSeq(in_lus[n].views, HasCustomColumn)
               out_views == result.logical_units[n].views
           IN  /\ ControlsOf(out_views) = ControlsOf(in_views)
               /\ \A j \in 1..Len(in_views) :
                    LET in_cols == in_views[j].columns
                        out_cols == out_views[j].columns
                        at == {k \in 1..Len(in_cols) : in_cols[k].is_custom}
                    IN  /\ Len(out_cols) = Cardinality(at)
                        /\ \A m \in 1..Len(out_cols) : out_cols[m] = in_cols[Nth(at, m)]

\* C13: after extract_custom_fields every column of the result is custom, every
\* view of the result has at least one column, every logical unit of the result
\* has at least one view, and every custom column of the input is in the
\* result under its logical unit and view, in the input's order.
C13_FilterResult ==
  Filtered
    => /\ \A n \in 1..Len(custom_data.logical_units) :
            LET lu == custom_data.logical_units[n]
            IN  /\ Len(lu.views) >= 1
                /\ \A j \in 1..Len(lu.views) :
                     /\ Len(lu.views[j].columns) >= 1
                     /\ \A k \in 1..Len(lu.views[j].columns) :
                          lu.views[j].columns[k].is_custom
       /\ C13_Kept(parsed_data, custom_data)

\* C13 witness: the input has a logical unit that is dropped and a view that
\* keeps its custom column, which stood behind a standard one.
C13_Witness ==
  /\ Filtered
  /\ Len(custom_data.logical_units) = 1
  /\ Len(parsed_data.logical_units) = 2
  /\ \E n \in 1..2 :
       LET lu == parsed_data.logical_units[n]
       IN  \E j \in 1..Len(lu.views) :
             /\ Len(lu.views[j].columns) = 2
             /\ ~lu.views[j].columns[1].is_custom
             /\ lu.views[j].columns[2].is_custom
             /\ custom_data.logical_units[1].views[1].columns = <<lu.views[j].columns[2]>>

\* The file named to validate_file is there and can be read.
Readable == file_path \in DOMAIN fs /\ fs[file_path].readable

\* C14: a readable file whose extension is neither .lng nor .trs is rejected at
\* once: validate_file returns valid = false with exactly one error, the
\* unknown file type, and no warning, whatever the file contains; no header,
\* content, nesting, indentation or field check is run on it.
C14_UnknownKind ==
  (Readable /\ ~is_lng /\ ~is_trs)
    => /\ vpc = "done"
       /\ ~is_valid
       /\ errors = <<"Unknown file type: " \o Suffix(file_path)>>
       /\ warnings = <<>>
       /\ content_start = -1 /\ stack = <<>> /\ i = 0

\* C14 witness: a file named in.LNG with a header, content lines indented with
\* spaces and an unterminated P: line, rejected for its type alone.
C14_Witness ==
  /\ Readable /\ file_path = "in.LNG" /\ Returned
  /\ Len(lines) = 15
  /\ \E n \in 1..Len(lines) : StartsWith(lines[n], "  CS:")
  /\ errors = <<"Unknown file type: .LNG">>

\* The findings of the header check, by their text.
IsHeaderError(e) ==
  \/ e = "File too short, missing header"
  \/ StartsWith(e, "Invalid file type header. Expected: ")
  \/ StartsWith(e, "Missing required header field: ")
IsHeaderWarning(w) == w = "Type version is not 10.00"

\* C15: when no line of a .lng or .trs file begins with 'CS:' once trimmed,
\* validate_file records 'Could not find content section' as its last error and
\* returns valid = false; every other finding returned is one of the header
\* check, none comes from the nesting, indentation or field checks.
C15_NoContent ==
  (KnownKind /\ CSLinesOf(lines) = {})
    => /\ ~is_valid
       /\ content_start = -1 /\ stack = <<>> /\ i = 0
       /\ Len(errors) >= 1
       /\ errors[Len(errors)] = "Could not find content section"
       /\ \A k \in 1..(Len(errors) - 1) : IsHeaderError(errors[k])
       /\ \A k \in 1..Len(warnings) : IsHeaderWarning(warnings[k])

\* C15 witness: a translation file with the header of the other kind, no field
\* line and another version, followed by a CE: line behind a space and an
\* unterminated P: line, but no CS: line.
C15_Witness ==
  /\ KnownKind /\ CSLinesOf(lines) = {} /\ is_trs
  /\ Len(lines) = 12
  /\ StartsWith(lines[11], " CE:")
  /\ StartsWith(Strip(lines[12]), "P:x")
  /\ Len(errors) = 6
  /\ warnings = <<"Type version is not 10.00">>

\* The part of a written file that precedes its content.
HeaderPart(text, content) == SubSeq(text, 1, Len(text) - Len(content))
LngHeaderPart == HeaderPart(fs[LngPath].text, LNG_generate_content(custom_data))
TrsHeaderPart(lang) ==
  HeaderPart(fs[TrsPath(lang)].text, TRS_generate_content(custom_data, translations[lang]))

Separator == "-------------------------------------------------------"
CRLFLines(ls) == Join([k \in 1..Len(ls) |-> ls[k] \o "\r\n"])

\* The code of a language as the header and the file name carry it.
ExpectedCode == [l \in {"sv-SE", "nb-NO", "de-DE", "fi", "sv-FI"} |->
               IF l \in {"sv-SE", "sv-FI"} THEN "sv" ELSE IF l = "nb-NO" THEN "no"
               ELSE IF l = "de-DE" THEN "de" ELSE "fi"]

\* C16 as claimed: the header of either kind has exactly ten lines.
C16_Original ==
  (Encoded /\ vpc = "idle")
    => /\ LngPath \in DOMAIN fs => Cardinality(LineEnds(LngHeaderPart)) = 10
       /\ \A lang \in WrittenLanguages : Cardinality(LineEnds(TrsHeaderPart(lang))) = 10

\* C16: the header of a definition file is exactly ten lines, that of a
\* translation file exactly twelve (Language: and Culture: follow Module:), each
\* terminated by carriage-return + line-feed, in the order separator, file-type
\* declaration, version 10.00, separator, field lines, Content marker, separator.
C16_Header ==
  (Encoded /\ vpc = "idle")
    => /\ LngPath \in DOMAIN fs
            => /\ LngHeaderPart =
                    CRLFLines(<<Separator,
                                "File Type: IFS Foundation Language File",
                                "Type version: 10.00",
                                Separator,
                                "Module: " \o custom_data.module,
                                "Layer: " \o custom_data.layer,
                                "Main Type: LU",
                                "Sub Type: Logical Unit",
                                "Content: ",
                                Separator>>)
               /\ Cardinality(LineEnds(LngHeaderPart)) = 10
       /\ \A lang \in WrittenLanguages :
            /\ TrsHeaderPart(lang) =
                 CRLFLines(<<Separator,
                             "File Type: IFS Foundation Translation File",
                             "Type version: 10.00",
                             Separator,
                             "Module: " \o custom_data.module,
                             "Language: " \o ExpectedCode[lang],
                             "Culture: " \o lang,
                             "Layer: " \o custom_data.layer,
                             "Main Type: LU",
                             "Sub Type: Logical Unit",
                             "Content: ",
                             Separator>>)
            /\ Cardinality(LineEnds(TrsHeaderPart(lang))) = 12

\* C16 witness: the definition file and the nb-NO translation file of a tree
\* with content, both written.
C16_Witness ==
  /\ Encoded /\ pc = "validate" /\ vpc = "idle"
  /\ custom_data.logical_units # <<>>
  /\ LngPath \in DOMAIN fs
  /\ "nb-NO" \in WrittenLanguages

\* The lines the header check scans: the first fifteen of the file.
Scanned == 1..(IF Len(lines) < 15 THEN Len(lines) ELSE 15)
InScanned(text) == \E n \in Scanned : Contains(lines[n], text)

C17_TypeError ==
  "Invalid file type header. Expected: "
    \o (IF is_lng THEN "IFS Foundation Language File" ELSE "IFS Foundation Translation File")
C17_FieldError(label) == "Missing required header field: " \o label
C17_Labels == {"Module:", "Layer:", "Main Type:", "Sub Type:"}
IsTypeError(e) == StartsWith(e, "Invalid file type header.")
IsFieldError(e) == StartsWith(e, "Missing required header field: ")
IsVersionFinding(e) == Contains(e, "Type version")

\* C17 as claimed: for every .lng or .trs file an error is recorded when the
\* type declaration of its kind is absent from the first 15 lines, and one error
\* per label of the four that is absent from them.
C17_Original ==
  KnownKind
    => /\ ~InScanned(IF is_lng THEN LngType ELSE TrsType) => C17_TypeError \in Range(errors)
       /\ \A label \in C17_Labels :
            ~InScanned(label) => C17_FieldError(label) \in Range(errors)

\* C17: in a .lng or .trs file of at least ten lines the header check reads the
\* first 15 lines: the type error is recorded exactly when no scanned line has
\* the declaration of the file's kind; one error per label of Module:, Layer:,
\* Main Type:, Sub Type: is recorded exactly when no scanned line has the label;
\* the version warning is recorded exactly when no scanned line has 'Type
\* version: 10.00', and the version is never in an error; the findings depend on
\* which lines are scanned, not on their order.  A file of fewer than ten lines
\* gets the one error 'File too short, missing header' and none of the above.
C17_HeaderFindings ==
  /\ (KnownKind /\ Len(lines) >= 10)
       => /\ C17_TypeError \in Range(errors)
               <=> ~InScanned(IF is_lng THEN LngType ELSE TrsType)
          /\ CountOf(errors, IsTypeError)
               = IF InScanned(IF is_lng THEN LngType ELSE TrsType) THEN 0 ELSE 1
          /\ \A label \in C17_Labels :
               C17_FieldError(label) \in Range(errors) <=> ~InScanned(label)
          /\ CountOf(errors, IsFieldError)
               = Cardinality({label \in C17_Labels : ~InScanned(label)})
          /\ warnings # <<>> /\ warnings[1] = "Type version is not 10.00"
               <=> ~InScanned("Type version: 10.00")
          /\ CountOf(warnings, IsVersionFinding)
               = IF InScanned("Type version: 10.00") THEN 0 ELSE 1
          /\ "File too short, missing header" \notin Range(errors)
  /\ (KnownKind /\ Len(lines) < 10)
       => /\ errors[1] = "File too short, missing header"
          /\ CountOf(errors, IsTypeError) = 0
          /\ CountOf(errors, IsFieldError) = 0
          /\ CountOf(warnings, IsVersionFinding) = 0
  /\ KnownKind => CountOf(errors, IsVersionFinding) = 0

\* C17 witness: a .lng file whose ten header lines stand in the opposite order,
\* with the translation declaration, another version, and the Layer: and Sub
\* Type: lines missing.
C17_Witness ==
  /\ KnownKind /\ is_lng /\ Len(lines) = 12
  /\ Contains(lines[9], "File Type: IFS Foundation Translation File")
  /\ Contains(lines[8], "Type version: 9.00")
  /\ Contains(lines[6], "Module:") /\ Contains(lines[4], "Main Type:")
  /\ SubSeq(errors, 1, 3) = <<"Invalid file type header. Expected: IFS Foundation Language File",
                              "Missing required header field: Layer:",
                              "Missing required header field: Sub Type:">>
  /\ warnings = <<"Type version is not 10.00">>

\* A line that is not blank and begins with a space.
SpaceIndented(n) == Strip(lines[n]) # "" /\ CharAt(lines[n], 1) = " "
C18_Message(n) == "Line " \o Str(n) \o ": Uses spaces instead of tabs for indentation"
IsIndentFinding(e) == Contains(e, "Uses spaces instead of tabs")

\* C18 as claimed: every non-blank line of the file that begins with a space
\* gets one warning naming it.
C18_Original ==
  KnownKind
    => \A n \in 1..Len(lines) : SpaceIndented(n) => C18_Message(n) \in Range(warnings)

\* C18: every non-blank line at or after the first CS: line of the file that
\* begins with a space gets exactly one warning naming it; a line that begins
\* with a tab or with another character, a blank line, a line before the first
\* CS: line and any line of a file without a CS: line get none; an indentation
\* finding is never an error, and the verdict does not depend on it.
C18_Indentation ==
  KnownKind
    => /\ \A n \in 1..Len(lines) :
            C18_Message(n) \in Range(warnings) <=> (SpaceIndented(n) /\ Examined(n))
       /\ CountOf(warnings, IsIndentFinding)
            = Cardinality({n \in 1..Len(lines) : SpaceIndented(n) /\ Examined(n)})
       /\ CountOf(errors, IsIndentFinding) = 0
       /\ is_valid <=> errors = <<>>

\* C18 witness: a valid file with a header line that begins with a space, and a
\* content line that does and is the only one warned about.
C18_Witness ==
  /\ FullyChecked /\ is_valid
  /\ \E n \in 1..content_start : SpaceIndented(n)
  /\ \E n \in (content_start + 1)..Len(lines) : SpaceIndented(n)
  /\ Len(warnings) = 1

\* validate_file was called and has not been called again since.
Called == vpc # "idle"

\* C19: validate_file never raises, whatever the file holds: it ends by
\* returning, every finding being an entry of errors or warnings; for a file
\* that does not exist or cannot be read it returns valid = false with exactly
\* one error, no warning, and having run no check.
C19_NeverRaises ==
  /\ vpc # "raised"
  /\ vpc \in {"idle", "header", "find", "pairing", "indent", "structure", "return", "done"}
  /\ (vpc = "pairing" /\ i < NumContentLines)
       => ~pairing_raises(stack, Strip(ContentLine(i)))
  /\ (Called /\ file_path \notin DOMAIN fs)
       => /\ Returned /\ ~is_valid
          /\ errors = <<"File does not exist: " \o file_path>>
          /\ warnings = <<>> /\ lines = <<>> /\ content_start = -1
  /\ (Called /\ file_path \in DOMAIN fs /\ ~fs[file_path].readable)
       => /\ Returned /\ ~is_valid
          /\ Len(errors) = 1 /\ StartsWith(errors[1], "Failed to read file: ")
          /\ warnings = <<>> /\ lines = <<>> /\ content_start = -1

\* C19 witness: the nesting check has met a CE: line with no block open and a
\* CS: line without identifier, and validate_file has returned its findings.
C19_Witness ==
  /\ Returned /\ KnownKind
  /\ \E k \in 1..Len(errors) : IsOrphanError(errors[k])
  /\ \E k \in 1..Len(errors) : Contains(errors[k], "Malformed CS line")

\* The module names of the model, first letter upper-cased, the rest lower-cased.
ExpectedModule ==
  [m \in {"ESSPRO", "esspro", "PROJ", "activityEstimate"} |->
     IF m \in {"ESSPRO", "esspro"} THEN "Esspro"
     ELSE IF m = "PROJ" THEN "Proj" ELSE "Activityestimate"]

C20_Stem == ExpectedModule[custom_data.module] \o "_LU_LogicalUnit-" \o custom_data.layer
C20_LngName == C20_Stem \o ".lng"
C20_TrsName(lang) == C20_Stem \o "-" \o ExpectedCode[lang] \o ".trs"

\* C20: the definition file is named <Module>_LU_LogicalUnit-<layer>.lng, Module
\* being the module name with its first letter upper-cased and the rest
\* lower-cased, and the translation file of a language the same stem followed by
\* -<code>.trs, code being sv for sv-SE, no for nb-NO and otherwise the part of
\* the language before its first hyphen; module esspro, layer Cust and sv-SE
\* give Esspro_LU_LogicalUnit-Cust.lng and Esspro_LU_LogicalUnit-Cust-sv.trs.
C20_FileNames ==
  (Encoded /\ vpc = "idle" /\ pc # "parsed")
    => /\ DOMAIN fs \subseteq
            {C20_LngName} \cup {C20_TrsName(languages[n]) : n \in 1..Len(languages)}
       /\ pc # "extracted" => C20_LngName \in DOMAIN fs
       /\ pc \in {"validate", "success", "failed"}
            => \A n \in 1..Len(languages) : C20_TrsName(languages[n]) \in DOMAIN fs
       /\ OutputFiles
            = <<C20_LngName>> \o [n \in 1..Len(languages) |-> C20_TrsName(languages[n])]
       /\ (custom_data.module = "esspro" /\ custom_data.layer = "Cust")
            => /\ LngPath = "Esspro_LU_LogicalUnit-Cust.lng"
               /\ TrsPath("sv-SE") = "Esspro_LU_LogicalUnit-Cust-sv.trs"

\* C20 witness: module esspro, layer Cust, languages sv-SE and nb-NO: the three
\* files are written under their names.
C20_Witness ==
  /\ Encoded /\ vpc = "idle" /\ pc = "validate"
  /\ custom_data.module = "esspro" /\ custom_data.layer = "Cust"
  /\ languages = <<"sv-SE", "nb-NO">>
  /\ DOMAIN fs = {"Esspro_LU_LogicalUnit-Cust.lng",
                  "Esspro_LU_LogicalUnit-Cust-sv.trs",
                  "Esspro_LU_LogicalUnit-Cust-no.trs"}

\* ---------------------------------------------------------------------------
\* IFSTranslator (translator.py)
\* ---------------------------------------------------------------------------

\* The labels passed to the translator and the target languages.
ActualCost == "Actual Cost"
UnknownLabel == "Unknown Label XYZ"
TextPool == {ActualCost, UnknownLabel}
TextLists == {<<>>, <<ActualCost>>, <<UnknownLabel>>, <<ActualCost, UnknownLabel>>,
              <<UnknownLabel, ActualCost>>, <<ActualCost, ActualCost>>}
TrLanguages == {"sv-SE", "nb-NO"}

\* What a translation service may answer for a label.
ServiceText == "service text"

\* _get_builtin_terms: the built-in table of a language, restricted to TextPool.
get_builtin_terms_swedish_only(language) ==
  IF language = "sv-SE" THEN [t \in {ActualCost} |-> "Verklig kostnad"] ELSE EmptyMap
get_builtin_terms(language) ==
  IF language = "sv-SE" THEN [t \in {ActualCost} |-> "Verklig kostnad"]
  ELSE IF language = "nb-NO" THEN [t \in {ActualCost} |-> "Faktisk kostnad"]
  ELSE EmptyMap

\* _load_dictionary_file: the project dictionary of a language; the project
\* directory holds a file for sv-SE and none for nb-NO.
load_dictionary_file(language) ==
  IF language = "sv-SE" THEN [t \in {ActualCost} |-> "Kostnad"] ELSE EmptyMap

\* _translate_with_dictionary: the project dictionary when a directory is set and
\* the file gives a non-empty table, else the built-in table; a text without an
\* entry is returned as it is.
term_dict(language) ==
  IF dictionary_dir /\ load_dictionary_file(language) # EmptyMap
  THEN load_dictionary_file(language)
  ELSE get_builtin_terms(language)
translate_with_dictionary(texts, language) ==
  [t \in Range(texts) |->
     IF t \in DOMAIN term_dict(language) THEN term_dict(language)[t] ELSE t]

\* dict.update: the entries of b over those of a.
Update(a, b) ==
  [k \in DOMAIN a \cup DOMAIN b |-> IF k \in DOMAIN b THEN b[k] ELSE a[k]]

\* _translate_with_groq: the object parsed from the service's answer, any mapping
\* from labels to texts, completed with every asked text it lacks mapped to
\* itself; any failure gives the dictionary's result.
GroqAnswers ==
  UNION {[d -> {ServiceText}] : d \in SUBSET TextPool}
translate_with_groq(texts, language) ==
  {Update([t \in Range(texts) |-> t], a) : a \in GroqAnswers}
    \cup {translate_with_dictionary(texts, language)}

\* _translate_with_google: one answer for each text; any failure gives the
\* dictionary's result.
translate_with_google(texts, language) ==
  {[t \in Range(texts) |-> ServiceText], translate_with_dictionary(texts, language)}

\* translate_batch, lines 107-113: the backend's result for the uncached texts.
backend_results(texts, language) ==
  IF backend = "groq" THEN translate_with_groq(texts, language)
  ELSE IF backend = "google" THEN translate_with_google(texts, language)
  ELSE {translate_with_dictionary(texts, language)}

\* translate_batch: the cache of the language (created empty when missing), the
\* cached texts copied to the result, the others sent to the backend, and every
\* entry of the backend's result stored in the cache and in the result.
language_cache(language) ==
  IF language \in DOMAIN translation_cache THEN translation_cache[language] ELSE EmptyMap
texts_to_translate(texts, language) ==
  SelectSeq(texts, LAMBDA t : t \notin DOMAIN language_cache(language))
translate_batch(texts, language) ==
  LET cache == language_cache(language)
      cached == [t \in Range(texts) \cap DOMAIN cache |-> cache[t]]
      todo == texts_to_translate(texts, language)
  IN  \E new \in (IF todo = <<>> THEN {EmptyMap} ELSE backend_results(todo, language)) :
        /\ translation_cache' =
             [l \in DOMAIN translation_cache \cup {language} |->
                IF l = language THEN Update(cache, new) ELSE translation_cache[l]]
        /\ tr_result' = Update(cached, new)
        /\ tr_texts' = texts
        /\ tr_language' = language

\* A client of the translator: IFSTranslator(backend, dictionary_dir), then calls
\* of translate_batch.
TrClientVars == <<caller, pc, parsed_data, custom_data, languages, translations,
                  lang_idx, file_idx, fs, validator_vars>>
InitTranslator ==
  /\ caller = "translator" /\ pc = "client"
  /\ parsed_data = NoData /\ custom_data = NoData
  /\ languages = <<>> /\ translations = EmptyMap
  /\ lang_idx = 0 /\ file_idx = 0
  /\ fs = [p \in {} |-> ""]
  /\ ValidatorInit
  /\ backend \in {"dictionary", "groq", "google"}
  /\ dictionary_dir \in BOOLEAN
  /\ translation_cache = [l \in {} |-> EmptyMap]
  /\ tr_texts = <<>> /\ tr_language = "" /\ tr_result = EmptyMap
  /\ NoThread

TranslateBatch ==
  /\ caller = "translator"
  /\ \E texts \in TextLists, language \in TrLanguages : translate_batch(texts, language)
  /\ UNCHANGED <<backend, dictionary_dir, TrClientVars, thread_vars>>

NextTranslator == TranslateBatch
SpecTranslator == InitTranslator /\ [][NextTranslator]_vars

\* ---------------------------------------------------------------------------
\* Two calls of validate_file on one IFSValidator, without synchronization
\* ---------------------------------------------------------------------------

\* _validate_cs_ce_pairing as a function: the errors of the content lines from
\* the n-th on, met with the stack st, and of the blocks open at the end.
RECURSIVE pairing_scan(_, _, _, _)
pairing_scan(ls, cs, n, st) ==
  IF n = Len(ls) - cs THEN unclosed_errors(st)
  ELSE LET line_num == n + cs + 1
           stripped == Strip(ls[cs + n + 1])
       IN  pairing_errors(st, stripped, line_num)
             \o pairing_scan(ls, cs, n + 1, pairing_stack(st, stripped, line_num))

\* validate_file, lines 53-71, for a readable .lng or .trs file: what the checks
\* append to self.errors and to self.warnings.
file_errors(path) ==
  LET ls == ReadLines(fs[path].text)
      lng == EndsWith(path, ".lng")
      cs == find_content_start(ls)
  IN  header_errors(ls, lng)
        \o (IF cs = -1 THEN <<"Could not find content section">>
            ELSE pairing_scan(ls, cs, 0, <<>>) \o structure_errors(ls, cs, lng))
file_warnings(path) ==
  LET ls == ReadLines(fs[path].text)
      cs == find_content_start(ls)
  IN  header_warnings(ls) \o (IF cs = -1 THEN <<>> ELSE indentation_warnings(ls, cs))

\* The contents of the two files in storage.
ParallelContents ==
  {<<"CS:A^LU\r\n", "CE:\r\n">>, <<"CE:\r\n">>, <<"CS:A^LU\r\n", "  CE:\r\n">>}

\* One validator, a definition file and a translation file in storage, and two
\* callers of validate_file.
InitParallel ==
  /\ caller = "parallel" /\ pc = "client"
  /\ parsed_data = NoData /\ custom_data = NoData
  /\ languages = <<>> /\ translations = EmptyMap
  /\ lang_idx = 0 /\ file_idx = 0
  /\ \E c1 \in ParallelContents, c2 \in ParallelContents :
       fs = [p \in {"in.lng", "in.trs"} |->
               [text |-> IF p = "in.lng" THEN LngHeader \o Join(c1) ELSE TrsHeader \o Join(c2),
                readable |-> TRUE]]
  /\ ValidatorInit
  /\ TranslatorInit /\ NoThread

\* The second call, lines 28-29: self.errors and self.warnings are bound to new
\* empty lists; both calls append to the lists bound last.
T2Begin ==
  /\ caller = "parallel" /\ t2pc = "none"
  /\ \E path \in DOMAIN fs : t2path' = path
  /\ errors' = <<>>
  /\ warnings' = <<>>
  /\ t2pc' = "checks"
  /\ UNCHANGED <<pc, orch_vars, fs, vpc, scan_vars, is_valid, translator_vars, t2result>>

\* The second call, lines 53-71: its checks append their findings.
T2Checks ==
  /\ t2pc = "checks"
  /\ errors' = errors \o file_errors(t2path)
  /\ warnings' = warnings \o file_warnings(t2path)
  /\ t2pc' = "return"
  /\ UNCHANGED <<pc, orch_vars, fs, vpc, scan_vars, is_valid, translator_vars, t2path,
                 t2result>>

\* The second call, lines 73-75: it returns self.errors and self.warnings.
T2Return ==
  /\ t2pc = "return"
  /\ t2result' = [valid |-> Len(errors) = 0, errors |-> errors, warnings |-> warnings]
  /\ t2pc' = "done"
  /\ UNCHANGED <<pc, orch_vars, fs, validator_vars, translator_vars, t2path>>

NextParallel ==
  \/ ClientValidate
  \/ ValidateHeader
  \/ FindContentStart
  \/ PairingLine
  \/ PairingEnd
  \/ ValidateIndentation
  \/ ValidateStructure
  \/ ValidateReturn
  \/ T2Begin
  \/ T2Checks
  \/ T2Return

SpecParallel == InitParallel /\ [][NextParallel]_vars

\* ---------------------------------------------------------------------------
\* C21 .. C30
\* ---------------------------------------------------------------------------

\* The entry the dictionary in use has for a text, "" when it has none: the
\* project file's for sv-SE when a project directory is set, else the built-in
\* one of tests/test_translations.py.
C21_Entry(text, language) ==
  IF text # ActualCost THEN ""
  ELSE IF language = "sv-SE" THEN (IF dictionary_dir THEN "Kostnad" ELSE "Verklig kostnad")
  ELSE IF language = "nb-NO" THEN "Faktisk kostnad"
  ELSE ""

\* C21: with the dictionary backend, whatever calls were made before,
\* translate_batch(texts, language) returns a mapping whose keys are exactly the
\* input texts; a text with an entry in the dictionary is mapped to that entry
\* and a text without one to itself.
C21_DictionaryBatch ==
  (caller = "translator" /\ backend = "dictionary" /\ tr_language # "")
    => /\ DOMAIN tr_result = Range(tr_texts)
       /\ \A t \in Range(tr_texts) :
            tr_result[t] = IF C21_Entry(t, tr_language) # ""
                           THEN C21_Entry(t, tr_language) ELSE t

\* C21 witness: after a call for sv-SE, a call for nb-NO with a known and an
\* unknown label returned the Norwegian entry and the unknown label itself.
C21_Witness ==
  /\ caller = "translator" /\ backend = "dictionary"
  /\ "sv-SE" \in DOMAIN translation_cache
  /\ ActualCost \in DOMAIN translation_cache["sv-SE"]
  /\ tr_language = "nb-NO" /\ tr_texts = <<ActualCost, UnknownLabel>>
  /\ tr_result[ActualCost] = "Faktisk kostnad"
  /\ tr_result[UnknownLabel] = UnknownLabel

\* C23: the translation cache is an append-only memoization keyed by language:
\* over any sequence of translate_batch calls, whatever the backend answers, an
\* entry cached for a (language, text) pair is never removed nor replaced by
\* another value, a later call for the pair returns the cached value, and a call
\* for one language changes no entry of another language.
C23_AppendOnly ==
  [][\A l \in DOMAIN translation_cache :
       /\ l \in DOMAIN translation_cache'
       /\ \A t \in DOMAIN translation_cache[l] :
            /\ t \in DOMAIN translation_cache'[l]
            /\ translation_cache'[l][t] = translation_cache[l][t]
            /\ (tr_language' = l /\ t \in Range(tr_texts'))
                 => tr_result'[t] = translation_cache[l][t]
       /\ l # tr_language' => translation_cache'[l] = translation_cache[l]]_vars

\* C22: every call of validate_file is independent: what it returns depends only
\* on the path and the content of its own file, whether the calls follow one
\* another on the same validator or run in parallel without synchronization; no
\* finding of one file appears in, or is missing from, the result of another.
C22_Independent ==
  t2pc = "done"
    => /\ t2result.errors = file_errors(t2path)
       /\ t2result.warnings = file_warnings(t2path)
       /\ t2result.valid = (file_errors(t2path) = <<>>)

\* What a line of a file is in the block structure: the identifier of a CS line
\* (the text between 'CS:' and the first caret), 'CE:' for a CE line, 'body'
\* for any other line.
MarkOf(l) ==
  LET st == Strip(l)
      carets == {n \in 4..Len(st) : CharAt(st, n) = "^"}
  IN  IF IsCSLine(l) THEN SubSeq(st, 4, SetMin(carets \cup {Len(st) + 1}) - 1)
      ELSE IF IsCELine(l) THEN "CE:"
      ELSE "body"
MarksOf(ls) == [n \in 1..Len(ls) |-> MarkOf(ls[n])]
BodyMarks(n) == [k \in 1..n |-> "body"]

\* The block structure a tree asks for: a block for every LogicalUnit and View in
\* the order of the tree and a block for every custom column, with lu_body body
\* lines in a LogicalUnit block, col_body in a Column block, none in a View block.
C24_ColumnMarks(c, col_body) ==
  IF c.is_custom THEN <<c.control>> \o BodyMarks(col_body) \o <<"CE:">> ELSE <<>>
C24_ViewMarks(v, col_body) ==
  <<v.control>>
    \o Flatten([k \in 1..Len(v.columns) |-> C24_ColumnMarks(v.columns[k], col_body)])
    \o <<"CE:">>
C24_LUMarks(lu, lu_body, col_body) ==
  <<lu.name>> \o BodyMarks(lu_body)
    \o Flatten([j \in 1..Len(lu.views) |-> C24_ViewMarks(lu.views[j], col_body)])
    \o <<"CE:">>
C24_TreeMarks(data, lu_body, col_body) ==
  Flatten([n \in 1..Len(data.logical_units) |->
             C24_LUMarks(data.logical_units[n], lu_body, col_body)])

\* The lines of a stored file after its header of n lines.
ContentOf(path, n) ==
  LET ls == StoredLines(path) IN SubSeq(ls, n + 1, Len(ls))

\* C24: the encoder of either kind emits one CS/CE block for every LogicalUnit
\* and every View of the tree it is given, in the order of the tree, and one
\* Column block for exactly the columns flagged custom; a View without custom
\* column still gets its CS line, immediately followed by its CE line, and a
\* LogicalUnit without View still gets its block: nothing but the non-custom
\* columns is left out.
C24_Blocks ==
  (Encoded /\ vpc = "idle")
    => /\ LngPath \in DOMAIN fs
            => MarksOf(ContentOf(LngPath, 10)) = C24_TreeMarks(custom_data, 1, 1)
       /\ \A lang \in WrittenLanguages :
            MarksOf(ContentOf(TrsPath(lang), 12)) = C24_TreeMarks(custom_data, 0, 2)

\* C24 witness: both files of a tree that has a LogicalUnit without View and a
\* View whose only columns are not custom are written.
C24_Witness ==
  /\ Encoded /\ vpc = "idle" /\ pc = "validate"
  /\ \E n \in 1..Len(custom_data.logical_units) :
       custom_data.logical_units[n].views = <<>>
  /\ \E n \in 1..Len(custom_data.logical_units) :
       \E j \in 1..Len(custom_data.logical_units[n].views) :
         LET v == custom_data.logical_units[n].views[j]
         IN  v.columns # <<>> /\ SelectSeq(v.columns, IsCustom) = <<>>
  /\ WrittenLanguages # {}

\* The number of tabs before every content line a tree asks for: d before the CS
\* line and the CE line of a block of depth d (LogicalUnit 0, View 1, Column 2),
\* d + 1 before the body lines of the block.
C25_ColumnTabs(c, col_body) ==
  IF c.is_custom THEN <<2>> \o [k \in 1..col_body |-> 3] \o <<2>> ELSE <<>>
C25_ViewTabs(v, col_body) ==
  <<1>> \o Flatten([k \in 1..Len(v.columns) |-> C25_ColumnTabs(v.columns[k], col_body)])
    \o <<1>>
C25_LUTabs(lu, lu_body, col_body) ==
  <<0>> \o [k \in 1..lu_body |-> 1]
    \o Flatten([j \in 1..Len(lu.views) |-> C25_ViewTabs(lu.views[j], col_body)])
    \o <<0>>
C25_TreeTabs(data, lu_body, col_body) ==
  Flatten([n \in 1..Len(data.logical_units) |->
             C25_LUTabs(data.logical_units[n], lu_body, col_body)])

\* The lines of a file: each begins with tabs followed by neither tab nor space
\* and ends with carriage-return+line-feed, the n-th content line is preceded by
\* as many tabs as the blocks open before it (one less for a CE line), and no
\* prefix of the file has more CE lines than CS lines.
C25_RawLines(text) ==
  LET ends == {e \in 1..Len(text) : CharAt(text, e) = "\n"} \cup {Len(text)}
      starts == {1} \cup {e + 1 : e \in ends \ {Len(text)}}
      n == IF text = "" THEN 0 ELSE Cardinality(ends)
  IN  [k \in 1..n |-> SubSeq(text, Nth(starts, k), Nth(ends, k))]
C25_Lines(path, header, tabs) ==
  LET all == C25_RawLines(fs[path].text)
      ls == SubSeq(all, header + 1, Len(all))
      Opened(n) == Cardinality({m \in 1..n : IsCSLine(ls[m])})
      Closed(n) == Cardinality({m \in 1..n : IsCELine(ls[m])})
  IN  /\ Join(all) = fs[path].text
      /\ \A n \in 1..Len(all) :
           /\ EndsWith(all[n], "\r\n")
           /\ \A k \in 1..(Len(all[n]) - 2) : CharAt(all[n], k) \notin {"\r", "\n"}
      /\ [n \in 1..Len(ls) |-> LeadingTabs(ls[n])] = tabs
      /\ \A n \in 1..Len(ls) :
           /\ CharAt(ls[n], LeadingTabs(ls[n]) + 1) \notin {" ", "\r", "\n"}
           /\ Closed(n) <= Opened(n)
           /\ LeadingTabs(ls[n])
                = Opened(n - 1) - Closed(n - 1) - (IF IsCELine(ls[n]) THEN 1 ELSE 0)

\* C25: in the file an encoder of either kind writes, every CS line and its
\* matching CE line are prefixed by exactly d tab characters, d being the depth
\* of the block (LogicalUnit 0, View 1, Column 2), the body lines of the block
\* by d + 1 tabs, every line ends with carriage-return+line-feed, and in every
\* prefix of the file the CE lines are at most as many as the CS lines.
C25_Indentation ==
  (Encoded /\ vpc = "idle")
    => /\ LngPath \in DOMAIN fs
            => C25_Lines(LngPath, 10, C25_TreeTabs(custom_data, 1, 1))
       /\ \A lang \in WrittenLanguages :
            C25_Lines(TrsPath(lang), 12, C25_TreeTabs(custom_data, 0, 2))

\* C25 witness: both files of a tree with a custom column in a second view are
\* written: blocks of the three depths, body lines at one and three tabs.
C25_Witness ==
  /\ Encoded /\ vpc = "idle" /\ pc = "validate"
  /\ WrittenLanguages # {}
  /\ Len(custom_data.logical_units) = 1
  /\ Len(custom_data.logical_units[1].views) = 2
  /\ SelectSeq(custom_data.logical_units[1].views[2].columns, IsCustom) # <<>>
  /\ Contains(fs[LngPath].text, "\r\n\t\t\tA:Prompt^")

\* The block skeleton of a stored file: its CS and CE lines in order, each as its
\* number of leading tabs and its CS identifier or 'CE:'.
Skeleton(path) ==
  LET ls == SelectSeq(StoredLines(path), LAMBDA l : ~IsBodyLine(l))
  IN  [n \in 1..Len(ls) |-> <<LeadingTabs(ls[n]), MarkOf(ls[n])>>]

\* C29: the definition file and every translation file written from the same
\* tree have the same block skeleton: the same sequence of CS identifiers and
\* CE lines at the same tab depths.
C29_SameSkeleton ==
  (Encoded /\ vpc = "idle" /\ LngPath \in DOMAIN fs)
    => \A lang \in WrittenLanguages : Skeleton(TrsPath(lang)) = Skeleton(LngPath)

\* C29 witness: the definition file and two translation files of a tree with
\* blocks of the three depths are written.
C29_Witness ==
  /\ Encoded /\ vpc = "idle" /\ pc = "validate"
  /\ Cardinality(WrittenLanguages) = 2
  /\ \E n \in 1..Len(Skeleton(LngPath)) : Skeleton(LngPath)[n][1] = 2
  /\ Len(Skeleton(LngPath)) >= 6

\* A stripped line that begins with 'CS:' and has no identifier character before
\* its first caret: 'CS:' alone, or 'CS:' followed by a caret.
NoIdentifier(st) ==
  StartsWith(st, "CS:") /\ (st = "CS:" \/ CharAt(st, 4) = "^")

\* C27: in the nesting check a CS line with no identifier character before its
\* first caret, or that is exactly 'CS:', records one error 'Malformed CS line'
\* for its line and pushes nothing on the stack; so the CE line that follows it
\* closes the enclosing open block, or is reported 'CE without matching CS' when
\* no block is open.
C27_MalformedCS ==
  [][(vpc = "pairing" /\ i' = i + 1)
       => LET st == Strip(ContentLine(i))
              num == Str(i + content_start + 1)
          IN  /\ NoIdentifier(st)
                   => /\ stack' = stack
                      /\ errors' = Append(errors, "Line " \o num \o ": Malformed CS line: " \o st)
              /\ (i > 0 /\ NoIdentifier(Strip(ContentLine(i - 1))) /\ StartsWith(st, "CE:"))
                   => IF stack = <<>>
                      THEN /\ stack' = <<>>
                           /\ errors' = Append(errors, "Line " \o num
                                                         \o ": CE without matching CS")
                      ELSE /\ stack' = SubSeq(stack, 1, Len(stack) - 1)
                           /\ errors' = errors]_vars

\* C27 witness: the file with the content lines CS:A^LU, CS:, CE:, CE: has been
\* scanned: the line 'CS:' is reported malformed, the first CE closed block A
\* and the second is reported without matching CS; no block is left open.
C27_Witness ==
  /\ vpc = "indent" /\ stack = <<>>
  /\ fs[file_path].text = TrsHeader \o "CS:A^LU\r\nCS:\r\nCE:\r\nCE:\r\n"
  /\ errors = <<"Line 14: Malformed CS line: CS:", "Line 16: CE without matching CS">>

\* The content lines, stripped; which of them open a block (a CS line with an
\* identifier) and which close one (a CE line).
Content(n) == Strip(ContentLine(n - 1))
Opens(n) == StartsWith(Content(n), "CS:") /\ ~NoIdentifier(Content(n))
Closes(n) == ~StartsWith(Content(n), "CS:") /\ StartsWith(Content(n), "CE:")

\* The number of blocks open after the first n content lines: a CE line met with
\* no block open leaves it at zero.
RECURSIVE OpenAfter(_)
OpenAfter(n) ==
  IF n = 0 THEN 0
  ELSE LET before == OpenAfter(n - 1)
       IN  IF Opens(n) THEN before + 1
           ELSE IF Closes(n) /\ before > 0 THEN before - 1
           ELSE before
OrphanCloses == {n \in 1..NumContentLines : Closes(n) /\ OpenAfter(n - 1) = 0}

\* The content is balanced: no prefix has more closing than opening lines and
\* the whole content has as many of the ones as of the others.
Balanced ==
  LET O(n) == Cardinality({m \in 1..n : Opens(m)})
      C(n) == Cardinality({m \in 1..n : Closes(m)})
  IN  /\ \A n \in 1..NumContentLines : C(n) <= O(n)
      /\ C(NumContentLines) = O(NumContentLines)

IsNestingError(e) ==
  EndsWith(e, ": CE without matching CS") \/ EndsWith(e, "' not closed with CE")
\* The nesting check has just ended.
NestingChecked == vpc = "indent"

\* C28: for a content made of CS lines with an identifier, CE lines and other
\* lines, the nesting check records no error exactly when the content is
\* balanced; in general the number of its errors is the number of CE lines met
\* with no block open plus the number of blocks still open at the end; and the
\* number of open blocks, the height of the stack, is never negative.
C28_NestingCount ==
  /\ vpc = "pairing" => Len(stack) = OpenAfter(i)
  /\ NestingChecked
       => /\ Len(SelectSeq(errors, IsNestingError))
               = Cardinality(OrphanCloses) + OpenAfter(NumContentLines)
          /\ (\A n \in 1..NumContentLines : ~NoIdentifier(Content(n)))
               => (SelectSeq(errors, IsNestingError) = <<>> <=> Balanced)

\* C28 witness: the content CS:A, CE:, CE:, CS:B, CS: has been scanned: one CE
\* line met with no block open and one block left open, two nesting errors.
C28_Witness ==
  /\ NestingChecked
  /\ NumContentLines = 5 /\ OpenAfter(5) = 1
  /\ Cardinality(OrphanCloses) = 1
  /\ Len(SelectSeq(errors, IsNestingError)) = 2

\* The steps of a run in their order, as the positions the run moves between.
C26_Order ==
  pc' # pc
    => <<pc, pc'>> \in {<<"parsed", "extracted">>, <<"extracted", "lng_written">>,
                        <<"lng_written", "translated">>, <<"translated", "validate">>,
                        <<"validate", "success">>, <<"validate", "failed">>}

\* Storage changes only when the definition file is written, after the filter,
\* and when the translation file of the next language is written, after the
\* translation: one write for every language of the list, in its order.
C26_Writes ==
  fs' # fs
    => \/ /\ pc = "extracted" /\ pc' = "lng_written"
          /\ DOMAIN fs' = DOMAIN fs \cup {LngPath}
       \/ /\ pc = "translated"
          /\ lang_idx \in 1..Len(languages)
          /\ DOMAIN fs' = DOMAIN fs \cup {TrsPath(languages[lang_idx])}
          /\ LngPath \in DOMAIN fs
          /\ IF lang_idx = Len(languages) THEN pc' = "validate"
             ELSE pc' = pc /\ lang_idx' = lang_idx + 1

\* validate_file is called in the last step only, for the written files in
\* their order, and reads the text that is in storage.
C26_Validates ==
  (vpc = "idle" /\ vpc' # "idle")
    => /\ pc = "validate" /\ fs' = fs
       /\ file_path' = OutputFiles[file_idx]
       /\ file_path' \in DOMAIN fs
       /\ lines' = ReadLines(fs[file_path'].text)

\* The run goes on to the next file, and reports success after the last one,
\* only when the file at hand has been validated with zero errors; an error in
\* the file at hand ends the run as a failure; nothing follows the end.
C26_Verdict ==
  /\ (pc = "validate" /\ (file_idx' # file_idx \/ pc' = "success"))
       => /\ vpc = "done" /\ errors = <<>>
          /\ file_path = OutputFiles[file_idx]
          /\ IF pc' = "success" THEN file_idx = Len(OutputFiles) /\ file_idx' = file_idx
             ELSE file_idx' = file_idx + 1 /\ file_idx < Len(OutputFiles)
  /\ pc' = "failed" => (pc = "validate" /\ vpc = "done" /\ errors # <<>>)
  /\ (pc = "validate" /\ vpc = "done" /\ errors # <<>>) => pc' = "failed"
  /\ pc \notin {"success", "failed"}

\* A file validated with warnings and no error does not fail its caller.
C26_Warnings ==
  (vpc = "done" /\ errors = <<>> /\ warnings # <<>>) => pc' # "failed"

\* C26: in one run of the orchestrator the steps happen in the order parse,
\* filter, write the definition file, translate, write one translation file for
\* every target language, validate; every written file is validated from
\* storage after it was written; the run reports success only if every one of
\* them validated with zero errors, a single validation error in any file ends
\* the run as a failure, and warnings alone never fail it.
C26_Run ==
  /\ [][caller = "run" => (C26_Order /\ C26_Writes /\ C26_Validates /\ C26_Verdict)]_vars
  /\ [][C26_Warnings]_vars

\* C26 witness: a run with two target languages has validated its three files
\* and reports success.
C26_Witness ==
  /\ caller = "run" /\ pc = "success"
  /\ Len(languages) = 2 /\ file_idx = 3
  /\ file_path = OutputFiles[3] /\ vpc = "done" /\ errors = <<>>

\* C30: in one run with a list of pairwise different target languages every
\* language is written to its own translation file: no two languages of the
\* list get the same file name, so that no translation file written in the run
\* is overwritten by a later one, and after the last write storage holds, for
\* every language, the file written for it.
C30_OwnFile ==
  (caller = "run" /\ pc \in {"validate", "success", "failed"}
     /\ \A m, n \in 1..Len(languages) : m # n => languages[m] # languages[n])
    => /\ \A m, n \in 1..Len(languages) :
            m # n => TrsPath(languages[m]) # TrsPath(languages[n])
       /\ \A n \in 1..Len(languages) :
            fs[TrsPath(languages[n])].text
              = TRS_file_text(custom_data, translations[languages[n]], languages[n])

====
